---- MODULE Spec2Model ----
(***************************************************************************)
(* Kubernetes MCP server (k8s_mcp_server_http.py, k8s_mcp_server_local.py) *)
(* as a state machine.                                                     *)
(*                                                                         *)
(* Text is a sequence of lines, each line a string; a "\n" of the source   *)
(* ends a line.  The non-ASCII glyphs of the source are written as ASCII   *)
(* marks (OK_MARK, BAD_MARK, WARN_MARK, RULE_DOUBLE, RULE_SINGLE).         *)
(* Python's None is the empty sequence <<>> and a present value v is <<v>>.*)
(* A Python dict is a sequence of [k, v] records in insertion order.       *)
(***************************************************************************)
EXTENDS Integers, Sequences, FiniteSets, TLC

VARIABLES
    transport,        \* which entry point runs: "http" or "local"
    k8s_initialized,  \* the module global _k8s_initialized
    config_loads,     \* how many times a credential/config load has succeeded
    loop,             \* the event-loop thread: "free", or the session blocking it
    api_threads,      \* the threads on which a cluster-API call has been made
    inv,              \* per session: the call_tool invocation in progress
    input,            \* a builder's fetched data (builder specifications)
    output            \* a builder's report (builder specifications)

vars == <<transport, k8s_initialized, config_loads, loop, api_threads, inv,
          input, output>>

mainVars == <<transport, k8s_initialized, config_loads, loop, api_threads, inv>>

-----------------------------------------------------------------------------
(* Bounds of the model *)

\* the longest pod list check_pod_health is given
MaxPods == 3
\* the most container statuses of a pod
MaxContainers == 2
\* the longest node list and pod list diagnose_cluster is given
MaxNodes == 2
MaxDiagPods == 2
\* The longest collection of a report that is cut at a cap.
MaxLongList == 15
\* the longest pod list and service list check_networking is given
MaxMeshPods == 4
MaxServices == 25

-----------------------------------------------------------------------------
(* Values *)

None == <<>>
Some(v) == <<v>>
IsNone(o) == o = <<>>
Get(o) == o[1]

OK_MARK == "(ok)"
BAD_MARK == "(x)"
WARN_MARK == "(!)"
RULE_DOUBLE == "=========="
RULE_SINGLE == "----------"

Concat(ss) ==
    LET f[i \in 0..Len(ss)] == IF i = 0 THEN <<>> ELSE f[i - 1] \o ss[i]
    IN  f[Len(ss)]

Range(s) == {s[i] : i \in 1..Len(s)}

\* s[:n]
Take(s, n) == SubSeq(s, 1, IF Len(s) < n THEN Len(s) ELSE n)

SeqsUpTo(S, n) == UNION {[1..k -> S] : k \in 0..n}

\* The indices of s whose element is in keep, in order.
SelectIdx(s, keep) ==
    LET f[i \in 0..Len(s)] ==
            IF i = 0 THEN <<>>
            ELSE IF s[i] \in keep THEN Append(f[i - 1], i) ELSE f[i - 1]
    IN  f[Len(s)]

DictHas(d, k) == \E i \in 1..Len(d) : d[i].k = k
DictGet(d, k, default) ==
    IF DictHas(d, k) THEN d[CHOOSE i \in 1..Len(d) : d[i].k = k].v ELSE default
DictSet(d, k, v) ==
    IF DictHas(d, k)
    THEN [i \in 1..Len(d) |-> IF d[i].k = k THEN [k |-> k, v |-> v] ELSE d[i]]
    ELSE Append(d, [k |-> k, v |-> v])

\* What a coroutine or a function ends with: a value, or an exception.
Return(v) == [kind |-> "return", value |-> v]
Raise(e) == [kind |-> "raise", exc |-> e]

\* [TextContent(type="text", text=...)]
TextContent(lines) == [kind |-> "text", text |-> lines]

ApiException(status) ==
    [type |-> "ApiException", status |-> status,
     msg |-> "(" \o ToString(status) \o ")"]
ConfigException ==
    [type |-> "ConfigException", status |-> 0,
     msg |-> "Invalid kube-config file. No configuration found."]
AttributeError ==
    [type |-> "AttributeError", status |-> 0,
     msg |-> "'NoneType' object has no attribute 'get'"]
TypeError ==
    [type |-> "TypeError", status |-> 0,
     msg |-> "'NoneType' object is not iterable"]
MaxRetryError ==
    [type |-> "MaxRetryError", status |-> 0,
     msg |-> "Max retries exceeded"]

-----------------------------------------------------------------------------
(* check_pod_health *)

InitialStatusCounts ==
    <<[k |-> "Running", v |-> 0], [k |-> "Pending", v |-> 0], [k |-> "Failed", v |-> 0],
      [k |-> "Succeeded", v |-> 0], [k |-> "Unknown", v |-> 0]>>

\* A faulty variant: Pending pods are not treated as problem pods.
IsProblemPhase_WithoutPending(phase) == phase \in {"Failed", "Unknown"}

IsProblemPhase(phase) == phase \in {"Failed", "Unknown"} \/ phase = "Pending"

\* A faulty variant: the terminated reason is preferred over the waiting one.
ContainerIssue_TerminatedFirst(cs) ==
    IF ~cs.ready
    THEN IF ~IsNone(cs.terminated)
         THEN <<cs.name \o ": Terminated - " \o Get(cs.terminated)>>
         ELSE IF ~IsNone(cs.waiting)
              THEN <<cs.name \o ": " \o Get(cs.waiting)>>
              ELSE <<>>
    ELSE <<>>

\* The issue strings of one container status: at most one.
ContainerIssue(cs) ==
    IF ~cs.ready
    THEN IF ~IsNone(cs.waiting)
         THEN <<cs.name \o ": " \o Get(cs.waiting)>>
         ELSE IF ~IsNone(cs.terminated)
              THEN <<cs.name \o ": Terminated - " \o Get(cs.terminated)>>
              ELSE <<>>
    ELSE <<>>

PodIssues(pod) ==
    LET container_statuses ==
            IF IsNone(pod.container_statuses) THEN <<>> ELSE Get(pod.container_statuses)
    IN  Concat([i \in 1..Len(container_statuses) |-> ContainerIssue(container_statuses[i])])

\* The loop over pods.items: status_counts and problem_pods after it.
PodHealthScan(pods) ==
    LET f[i \in 0..Len(pods)] ==
            IF i = 0
            THEN [status_counts |-> InitialStatusCounts, problem_pods |-> <<>>]
            ELSE LET prev == f[i - 1]
                     pod == pods[i]
                     phase == pod.phase
                 IN  [status_counts |->
                          DictSet(prev.status_counts, phase,
                                  DictGet(prev.status_counts, phase, 0) + 1),
                      problem_pods |->
                          IF IsProblemPhase(phase)
                          THEN Append(prev.problem_pods,
                                      [name |-> pod.name,
                                       namespace |-> pod.namespace,
                                       phase |-> phase,
                                       issues |-> PodIssues(pod)])
                          ELSE prev.problem_pods]
    IN  f[Len(pods)]

PodHealthSummary(status_counts) ==
    Concat([i \in 1..Len(status_counts) |->
        IF status_counts[i].v > 0
        THEN <<"  " \o (IF status_counts[i].k \in {"Running", "Succeeded"}
                        THEN OK_MARK ELSE BAD_MARK)
               \o " " \o status_counts[i].k \o ": " \o ToString(status_counts[i].v)>>
        ELSE <<>>])

\* The two entry points differ in this one line.
ProblemPodsHeader(variant, n) ==
    (IF variant = "http" THEN " " ELSE WARN_MARK \o " ")
    \o "Problem Pods (" \o ToString(n) \o "):"

ProblemPodLines(p) ==
    <<"", "  Pod: " \o p.namespace \o "/" \o p.name, "  Status: " \o p.phase>>
    \o (IF p.issues # <<>>
        THEN <<"  Issues:">> \o [i \in 1..Len(p.issues) |-> "    - " \o p.issues[i]]
        ELSE <<>>)

\* The text check_pod_health builds from the fetched pods.
PodHealthReport(variant, namespace, pods) ==
    LET scan == PodHealthScan(pods)
        problem_pods == scan.problem_pods
    IN  <<IF namespace # ""
          THEN "Pod Health Status (Namespace: " \o namespace \o "):"
          ELSE "Pod Health Status (All Namespaces):",
          RULE_DOUBLE, "", "Summary:">>
        \o PodHealthSummary(scan.status_counts)
        \o (IF problem_pods # <<>>
            THEN <<"", ProblemPodsHeader(variant, Len(problem_pods)), RULE_SINGLE>>
                 \o Concat([i \in 1..Len(problem_pods) |-> ProblemPodLines(problem_pods[i])])
            ELSE <<"", OK_MARK \o " No problem pods detected">>)


-----------------------------------------------------------------------------
(* check_node_health *)

\* The mark check_node_health prints for a condition.
ConditionMark(condition) ==
    IF (condition.type = "Ready" /\ condition.status = "True")
       \/ (condition.type # "Ready" /\ condition.status = "False")
    THEN OK_MARK ELSE BAD_MARK

NodeConditionLines(conditions) ==
    Concat([i \in 1..Len(conditions) |->
        IF conditions[i].type \in {"Ready", "MemoryPressure", "DiskPressure", "PIDPressure"}
        THEN <<"  " \o ConditionMark(conditions[i]) \o " " \o conditions[i].type
               \o ": " \o conditions[i].status>>
        ELSE <<>>])

ResourceLines(title, map) ==
    <<"", title,
      "  CPU: " \o DictGet(map, "cpu", "N/A"),
      "  Memory: " \o DictGet(map, "memory", "N/A"),
      "  Pods: " \o DictGet(map, "pods", "N/A")>>

NodeHealthLines(node) ==
    <<"Node: " \o node.name, RULE_SINGLE>>
    \o NodeConditionLines(Get(node.conditions))
    \o ResourceLines("Capacity:", node.capacity)
    \o ResourceLines("Allocatable:", node.allocatable)
    \o <<"">>

\* What check_node_health ends with after the fetch: iterating a None
\* conditions list raises TypeError.
NodeHealthFormat(nodes) ==
    IF \E i \in 1..Len(nodes) : IsNone(nodes[i].conditions)
    THEN Raise(TypeError)
    ELSE Return(<<"Node Health Status:", RULE_DOUBLE, "">>
                \o Concat([i \in 1..Len(nodes) |-> NodeHealthLines(nodes[i])]))

-----------------------------------------------------------------------------
(* diagnose_cluster *)

DisplayCap == 10
RestartThreshold == 5

NodeIssue(node, condition) ==
    IF condition.type = "Ready" /\ condition.status # "True"
    THEN <<"Node " \o node.name \o " is not Ready">>
    ELSE IF condition.type \in {"MemoryPressure", "DiskPressure", "PIDPressure"}
            /\ condition.status = "True"
         THEN <<"Node " \o node.name \o " has " \o condition.type>>
         ELSE <<>>

DiagnoseNodeIssues(nodes) ==
    Concat([i \in 1..Len(nodes) |->
        LET conditions == Get(nodes[i].conditions)
        IN  Concat([j \in 1..Len(conditions) |-> NodeIssue(nodes[i], conditions[j])])])

PodRef(pod) == pod.namespace \o "/" \o pod.name

\* failing_pods takes the Failed pods, pending_pods (elif) the Pending ones.
PodsInPhase(pods, phase) ==
    Concat([i \in 1..Len(pods) |->
        IF pods[i].phase = phase THEN <<PodRef(pods[i])>> ELSE <<>>])

HighRestartEntries(pod) ==
    IF IsNone(pod.container_statuses) \/ pod.container_statuses = Some(<<>>)
    THEN <<>>
    ELSE LET cs == Get(pod.container_statuses)
         IN  Concat([j \in 1..Len(cs) |->
                 IF cs[j].restart_count > RestartThreshold
                 THEN <<PodRef(pod) \o " (container: " \o cs[j].name
                        \o ", restarts: " \o ToString(cs[j].restart_count) \o ")">>
                 ELSE <<>>])

DiagnoseHighRestartPods(pods) ==
    Concat([i \in 1..Len(pods) |-> HighRestartEntries(pods[i])])

Bullets(entries) == [i \in 1..Len(entries) |-> "  - " \o entries[i]]

\* A faulty variant: the overflow line is already written for DisplayCap
\* entries.
CappedSection_OverflowAtCap(title, entries) ==
    <<title \o " (" \o ToString(Len(entries)) \o "):">>
    \o Bullets(Take(entries, DisplayCap))
    \o (IF Len(entries) >= DisplayCap
        THEN <<"  ... and " \o ToString(Len(entries) - DisplayCap) \o " more">>
        ELSE <<>>)

\* A counted section: header with the count, the first DisplayCap entries,
\* and the overflow line.
CappedSection(title, entries) ==
    <<title \o " (" \o ToString(Len(entries)) \o "):">>
    \o Bullets(Take(entries, DisplayCap))
    \o (IF Len(entries) > DisplayCap
        THEN <<"  ... and " \o ToString(Len(entries) - DisplayCap) \o " more">>
        ELSE <<>>)

\* A faulty variant: the healthy test does not look at high_restart_pods.
DiagnoseFindings_IgnoresRestarts(issues, failing_pods, pending_pods, high_restart_pods) ==
    IF issues = <<>> /\ failing_pods = <<>> /\ pending_pods = <<>>
    THEN <<OK_MARK \o " No critical issues detected", "", "Cluster appears healthy!">>
    ELSE <<WARN_MARK \o " Issues Detected:", RULE_SINGLE, "">>
         \o (IF issues # <<>>
             THEN <<"Node Issues:">> \o Bullets(issues) \o <<"">> ELSE <<>>)
         \o (IF failing_pods # <<>>
             THEN CappedSection("Failed Pods", failing_pods) \o <<"">> ELSE <<>>)
         \o (IF pending_pods # <<>>
             THEN CappedSection("Pending Pods", pending_pods) \o <<"">> ELSE <<>>)
         \o (IF high_restart_pods # <<>>
             THEN CappedSection("Pods with High Restart Count", high_restart_pods)
             ELSE <<>>)

DiagnoseFindings(issues, failing_pods, pending_pods, high_restart_pods) ==
    IF issues = <<>> /\ failing_pods = <<>> /\ pending_pods = <<>>
       /\ high_restart_pods = <<>>
    THEN <<OK_MARK \o " No critical issues detected", "", "Cluster appears healthy!">>
    ELSE <<WARN_MARK \o " Issues Detected:", RULE_SINGLE, "">>
         \o (IF issues # <<>>
             THEN <<"Node Issues:">> \o Bullets(issues) \o <<"">> ELSE <<>>)
         \o (IF failing_pods # <<>>
             THEN CappedSection("Failed Pods", failing_pods) \o <<"">> ELSE <<>>)
         \o (IF pending_pods # <<>>
             THEN CappedSection("Pending Pods", pending_pods) \o <<"">> ELSE <<>>)
         \o (IF high_restart_pods # <<>>
             THEN CappedSection("Pods with High Restart Count", high_restart_pods)
             ELSE <<>>)

\* What diagnose_cluster ends with after the fetch.
DiagnoseFormat(nodes, pods) ==
    IF \E i \in 1..Len(nodes) : IsNone(nodes[i].conditions)
    THEN Raise(TypeError)
    ELSE Return(<<"Cluster Diagnostics:", RULE_DOUBLE, "">>
                \o DiagnoseFindings(DiagnoseNodeIssues(nodes),
                                    PodsInPhase(pods, "Failed"),
                                    PodsInPhase(pods, "Pending"),
                                    DiagnoseHighRestartPods(pods)))

-----------------------------------------------------------------------------
(* Resource quantities.  A quantity string is its number, the rational     *)
(* num/den, followed by its suffix, a sequence of characters.              *)

Quantity(num, den, suffix) == [num |-> num, den |-> den, suffix |-> suffix]

ValueError ==
    [type |-> "ValueError", status |-> 0,
     msg |-> "could not convert string to float"]

\* sub in s
Contains(s, sub) ==
    \E i \in 0..(Len(s) - Len(sub)) : SubSeq(s, i + 1, i + Len(sub)) = sub

\* s.rstrip(chars): the trailing characters that are in chars are dropped.
Rstrip(s, chars) ==
    LET keep == {j \in 0..Len(s) : \A i \in (j + 1)..Len(s) : s[i] \in Range(chars)}
        j == CHOOSE j \in keep : \A k \in keep : j <= k
    IN  SubSeq(s, 1, j)

\* The branch of an if/elif chain of "unit in text" tests that is taken: the
\* last entry of units is the else branch.
FirstUnit(suffix, units) ==
    LET hit == {i \in 1..(Len(units) - 1) : Contains(suffix, units[i].unit)}
    IN  IF hit = {} THEN Len(units) ELSE CHOOSE i \in hit : \A k \in hit : i <= k

\* float(q.rstrip(unit)) scaled by mul/div: float() converts a bare number
\* only, and raises ValueError on what rstrip has left of a suffix.
Float(q, u) ==
    IF Rstrip(q.suffix, u.unit) = <<>>
    THEN Return([num |-> q.num * u.mul, den |-> q.den * u.div])
    ELSE Raise(ValueError)

ParseWith(q, units) == Float(q, units[FirstUnit(q.suffix, units)])

\* num/den rounded to the nearest integer, halves to even.
RoundDiv(num, den) ==
    LET q == num \div den
        r == num % den
    IN  IF 2 * r > den \/ (2 * r = den /\ q % 2 = 1) THEN q + 1 ELSE q

\* f"{num/den:.2f}"
Fixed2(num, den) ==
    LET common == {g \in {1, 2, 4, 5, 10, 20, 25, 50, 100} : den % g = 0}
        g == CHOOSE g \in common : \A k \in common : k <= g
        h == RoundDiv(num * (100 \div g), den \div g)
    IN  ToString(h \div 100) \o "." \o (IF h % 100 < 10 THEN "0" ELSE "") \o ToString(h % 100)

\* format_resource_usage: the last entry of each table is the bare-number case.
CpuToCores ==
    <<[unit |-> <<"n">>, mul |-> 1, div |-> 1000000],
      [unit |-> <<"u">>, mul |-> 1, div |-> 1000],
      [unit |-> <<"m">>, mul |-> 1000, div |-> 1000],
      [unit |-> <<>>, mul |-> 1000, div |-> 1]>>

MemToGb ==
    <<[unit |-> <<"K", "i">>, mul |-> 1, div |-> 1024],
      [unit |-> <<"M", "i">>, mul |-> 1, div |-> 1],
      [unit |-> <<"G", "i">>, mul |-> 1024, div |-> 1],
      [unit |-> <<>>, mul |-> 1, div |-> 1048576]>>

\* The return of format_resource_usage from the two conversions: c is in
\* millicores (cores * 1000), m in MiB (GB * 1024).
CoresAndGb(c, m) ==
    IF c.kind = "raise" THEN c
    ELSE IF m.kind = "raise" THEN m
    ELSE Return(Fixed2(c.value.num, c.value.den * 1000) \o " cores, "
                \o Fixed2(m.value.num, m.value.den * 1024) \o " GB")

format_resource_usage(cpu, memory) ==
    CoresAndGb(ParseWith(cpu, CpuToCores), ParseWith(memory, MemToGb))

-----------------------------------------------------------------------------
(* get_resource_usage *)

TopPods == 10
MilliDisplayFrom == 1000000

\* Per-container normalisation: CPU to nanocores, memory to Ki.
CpuToNano ==
    <<[unit |-> <<"n">>, mul |-> 1, div |-> 1],
      [unit |-> <<"u">>, mul |-> 1000, div |-> 1],
      [unit |-> <<"m">>, mul |-> 1000000, div |-> 1],
      [unit |-> <<>>, mul |-> 1000000000, div |-> 1]>>

MemToKi ==
    <<[unit |-> <<"K", "i">>, mul |-> 1, div |-> 1],
      [unit |-> <<"M", "i">>, mul |-> 1024, div |-> 1],
      [unit |-> <<"G", "i">>, mul |-> 1048576, div |-> 1],
      [unit |-> <<>>, mul |-> 1, div |-> 1024]>>

\* A total of Ki: ki whole ones and frac 1024ths (den divides 1024).
AddKi(total, num, den) ==
    LET frac == total.frac + (num % den) * (1024 \div den)
    IN  [ki |-> total.ki + num \div den + frac \div 1024, frac |-> frac % 1024]

\* One container added to the totals of its pod: c is its CPU in nanocores,
\* m its memory in Ki.  total_cpu starts as the int 0 and is a float once a
\* float has been added to it.
AddUsage(total, c, m) ==
    IF total.kind = "raise" THEN total
    ELSE IF c.kind = "raise" THEN c
    ELSE IF m.kind = "raise" THEN m
    ELSE Return([total.value EXCEPT
                     !.cpu = @ + c.value.num \div c.value.den,
                     !.float = TRUE,
                     !.memory = AddKi(@, m.value.num, m.value.den)])

\* The entry of pods_with_usage for a pod: the sums over pod['containers'],
\* total_cpu (nanocores) and total_mem (Ki), or the first conversion error.
PodUsage(pod) ==
    LET cs == pod.containers
        f[i \in 0..Len(cs)] ==
            IF i = 0
            THEN Return([name |-> pod.name, namespace |-> pod.namespace,
                         cpu |-> 0, float |-> FALSE,
                         memory |-> [ki |-> 0, frac |-> 0]])
            ELSE AddUsage(f[i - 1], ParseWith(cs[i].cpu, CpuToNano),
                          ParseWith(cs[i].memory, MemToKi))
    IN  f[Len(cs)]

\* A faulty variant: the list is left in fetch order.
SortByCpuDesc_FetchOrder(ps) == ps

\* list.sort(key=cpu, reverse=True): stable, descending.
SortByCpuDesc(ps) ==
    LET Before(i, j) == ps[i].cpu > ps[j].cpu \/ (ps[i].cpu = ps[j].cpu /\ i < j)
        rank(i) == Cardinality({j \in 1..Len(ps) : Before(j, i)}) + 1
    IN  [r \in 1..Len(ps) |-> ps[CHOOSE i \in 1..Len(ps) : rank(i) = r]]

\* The text of cpu_str: a float below MilliDisplayFrom is written by str(),
\* with its ".0"; the others with two decimals.
PodCpuText(pod) ==
    IF pod.cpu < MilliDisplayFrom
    THEN ToString(pod.cpu) \o (IF pod.float THEN ".0" ELSE "") \o "n"
    ELSE Fixed2(pod.cpu, MilliDisplayFrom) \o "m"

\* cpu_str and mem_str of a ranked pod, as the quantities they are read as.
PodCpuStr(cpu) ==
    IF cpu < MilliDisplayFrom
    THEN Quantity(cpu, 1, <<"n">>)
    ELSE Quantity(RoundDiv(cpu, MilliDisplayFrom \div 100), 100, <<"m">>)

\* f"{memory:.0f}Ki": the nearest whole number, halves to even
PodMemStr(memory) ==
    Quantity(IF memory.frac > 512 \/ (memory.frac = 512 /\ memory.ki % 2 = 1)
             THEN memory.ki + 1 ELSE memory.ki,
             1, <<"K", "i">>)

\* f"  {label}: {usage}" where usage is what format_resource_usage ended with
UsageLine(label, usage) ==
    IF usage.kind = "raise" THEN usage
    ELSE Return("  " \o label \o ": " \o usage.value)

UsageNodeLine(node) ==
    UsageLine(node.name, format_resource_usage(node.cpu, node.memory))

UsagePodLine(pod) ==
    UsageLine(pod.namespace \o "/" \o pod.name,
              format_resource_usage(PodCpuStr(pod.cpu), PodMemStr(pod.memory)))

\* The first exception among outcomes, else the sequence of their values.
AllOrRaise(outcomes) ==
    LET bad == {i \in 1..Len(outcomes) : outcomes[i].kind = "raise"}
    IN  IF bad # {} THEN outcomes[CHOOSE i \in bad : \A k \in bad : i <= k]
        ELSE Return([i \in 1..Len(outcomes) |-> outcomes[i].value])

\* pods_with_usage sorted and cut to the top ones.
TopUsage(pods_with_usage) == Take(SortByCpuDesc(pods_with_usage), TopPods)

\* The lines of the pods of pods_with_usage, sorted and cut to the top ones.
RankedPodLines(pods_with_usage) ==
    LET top == TopUsage(pods_with_usage)
    IN  AllOrRaise([i \in 1..Len(top) |-> UsagePodLine(top[i])])

\* The text of the try body from its three loops, in the order they run:
\* the node lines, pods_with_usage, the pod lines.
UsageText(namespace, nodes, usage, pods) ==
    IF nodes.kind = "raise" THEN nodes
    ELSE IF usage.kind = "raise" THEN usage
    ELSE IF pods.kind = "raise" THEN pods
    ELSE Return(<<"Resource Usage:", RULE_DOUBLE, "", "Nodes:", RULE_SINGLE>>
                \o nodes.value
                \o <<"", "",
                     IF namespace # ""
                     THEN "Pods (Namespace: " \o namespace \o "):"
                     ELSE "Top Pods by Resource Usage:",
                     RULE_SINGLE>>
                \o pods.value)

\* The try body of get_resource_usage after a successful fetch.
UsageFormat(namespace, node_metrics, pod_metrics) ==
    LET usage == AllOrRaise([i \in 1..Len(pod_metrics) |-> PodUsage(pod_metrics[i])])
    IN  UsageText(namespace,
                  AllOrRaise([i \in 1..Len(node_metrics) |->
                                 UsageNodeLine(node_metrics[i])]),
                  usage,
                  RankedPodLines(usage.value))

\* A faulty variant: a not-found answer is reported like any other API error.
UsageExcept_NoSentinel(body) ==
    IF body.kind = "raise" /\ body.exc.type = "ApiException"
    THEN Return(<<"Error getting metrics: " \o body.exc.msg>>)
    ELSE body

\* The except clause of get_resource_usage: it takes an ApiException alone;
\* body is what the try block ended with.
UsageExcept(body) ==
    IF body.kind = "raise" /\ body.exc.type = "ApiException"
    THEN IF body.exc.status = 404
         THEN Return(<<"Resource Usage:", RULE_DOUBLE, "", "Metrics Server not available">>)
         ELSE Return(<<"Error getting metrics: " \o body.exc.msg>>)
    ELSE body

\* get_resource_usage after the await: fetched is what _fetch ended with.
UsageAfterFetch(namespace, fetched) ==
    UsageExcept(IF fetched.kind = "raise" THEN fetched
                ELSE UsageFormat(namespace, fetched.value.node_metrics,
                                 fetched.value.pod_metrics))

-----------------------------------------------------------------------------
(* get_cluster_info, get_namespace_summary *)

ClusterInfoFormat(version_info, node_count, ns_count) ==
    Return(<<"Cluster Information:", RULE_SINGLE,
             "Kubernetes Version: " \o version_info.git_version,
             "Platform: " \o version_info.platform,
             "API Server: Healthy",
             "Total Nodes: " \o ToString(node_count),
             "Total Namespaces: " \o ToString(ns_count)>>)

CountIn(items, ns_name) ==
    Cardinality({i \in 1..Len(items) : items[i].namespace = ns_name})

CountPhase(items, ns_name, phase) ==
    Cardinality({i \in 1..Len(items) :
                    items[i].namespace = ns_name /\ items[i].phase = phase})

NamespaceLines(ns_name, all_pods, all_services, all_deployments) ==
    <<"Namespace: " \o ns_name, RULE_SINGLE,
      "  Pods: " \o ToString(CountIn(all_pods, ns_name))
          \o " (Running: " \o ToString(CountPhase(all_pods, ns_name, "Running"))
          \o ", Pending: " \o ToString(CountPhase(all_pods, ns_name, "Pending"))
          \o ", Failed: " \o ToString(CountPhase(all_pods, ns_name, "Failed")) \o ")",
      "  Deployments: " \o ToString(CountIn(all_deployments, ns_name)),
      "  Services: " \o ToString(CountIn(all_services, ns_name)),
      "">>

NamespaceSummaryFormat(namespaces, all_pods, all_services, all_deployments) ==
    Return(<<"Namespace Summary:", RULE_DOUBLE, "">>
           \o Concat([i \in 1..Len(namespaces) |->
                  NamespaceLines(namespaces[i].name, all_pods, all_services,
                                 all_deployments)]))

-----------------------------------------------------------------------------
(* check_networking: the report built from what _fetch returned *)

MissingEndpointsCap == 20

\* sorted(keys) for namespace names: order holds the namespace names of the
\* model in the order sorted() gives them ("<cluster>" sorts before any letter).
SortedNamespaces(keys) ==
    LET order == <<"<cluster>", "default", "istio-system", "ns1", "ns2">>
        idx == SelectIdx(order, keys)
    IN  [i \in 1..Len(idx) |-> order[idx[i]]]

\* d[k] += 1 on a defaultdict(int)
DictIncr(d, k) == DictSet(d, k, DictGet(d, k, 0) + 1)

DictKeys(d) == {d[i].k : i \in 1..Len(d)}

DictSum(d) ==
    LET f[i \in 0..Len(d)] == IF i = 0 THEN 0 ELSE f[i - 1] + d[i].v
    IN  f[Len(d)]

\* The first istio-proxy container of a pod, as an index, or 0.
ProxyIndex(containers) ==
    LET hit == {i \in 1..Len(containers) : containers[i].name = "istio-proxy"}
    IN  IF hit = {} THEN 0 ELSE CHOOSE i \in hit : \A k \in hit : i <= k

\* A faulty variant: the loop over the containers has no break, and every
\* istio-proxy container is counted.
SidecarScan_NoBreak(all_pods) ==
    LET f[i \in 0..Len(all_pods)] ==
            IF i = 0
            THEN [ns_total |-> <<>>, ns_injected |-> <<>>, proxy_versions |-> <<>>]
            ELSE LET prev == f[i - 1]
                     pod == all_pods[i]
                     containers == IF IsNone(pod.containers) THEN <<>>
                                   ELSE Get(pod.containers)
                     proxies == Cardinality({j \in 1..Len(containers) :
                                                containers[j].name = "istio-proxy"})
                 IN  [ns_total |-> DictIncr(prev.ns_total, pod.namespace),
                      ns_injected |->
                          IF proxies # 0
                          THEN DictSet(prev.ns_injected, pod.namespace,
                                       DictGet(prev.ns_injected, pod.namespace, 0) + proxies)
                          ELSE prev.ns_injected,
                      proxy_versions |-> prev.proxy_versions]
    IN  f[Len(all_pods)]

\* The loop over all_pods: ns_total, ns_injected, proxy_versions.  An image
\* is its text split at ":"; None has no parts; the last part is the tag.
SidecarScan(all_pods) ==
    LET f[i \in 0..Len(all_pods)] ==
            IF i = 0
            THEN [ns_total |-> <<>>, ns_injected |-> <<>>, proxy_versions |-> <<>>]
            ELSE LET prev == f[i - 1]
                     pod == all_pods[i]
                     containers == IF IsNone(pod.containers) THEN <<>>
                                   ELSE Get(pod.containers)
                     p == ProxyIndex(containers)
                     image == containers[p].image
                 IN  [ns_total |-> DictIncr(prev.ns_total, pod.namespace),
                      ns_injected |->
                          IF p # 0 THEN DictIncr(prev.ns_injected, pod.namespace)
                          ELSE prev.ns_injected,
                      proxy_versions |->
                          IF p # 0 /\ ~IsNone(image) /\ Len(Get(image)) >= 2
                          THEN DictIncr(prev.proxy_versions, Get(image)[Len(Get(image))])
                          ELSE prev.proxy_versions]
    IN  f[Len(all_pods)]

\* A faulty variant: the percentage is rounded to the nearest whole number.
CoverageLine_RoundedPct(ns_name, injected, total) ==
    "  " \o (IF injected = total THEN OK_MARK ELSE IF injected > 0 THEN "~" ELSE BAD_MARK)
    \o " " \o ns_name \o ": "
    \o ToString(injected) \o "/" \o ToString(total)
    \o " (" \o ToString(IF total # 0 THEN RoundDiv(injected * 100, total) ELSE 0) \o "%)"

CoverageLine(ns_name, injected, total) ==
    "  " \o (IF injected = total THEN OK_MARK ELSE IF injected > 0 THEN "~" ELSE BAD_MARK)
    \o " " \o ns_name \o ": "
    \o ToString(injected) \o "/" \o ToString(total)
    \o " (" \o ToString(IF total # 0 THEN (injected * 100) \div total ELSE 0) \o "%)"

SidecarLines(scan) ==
    LET total_pods == DictSum(scan.ns_total)
        total_injected == DictSum(scan.ns_injected)
        names == SortedNamespaces(DictKeys(scan.ns_total))
    IN  <<"Sidecar Injection Coverage:", RULE_SINGLE>>
        \o (IF total_injected = 0
            THEN <<"  " \o WARN_MARK \o " No istio-proxy sidecars detected in any pod">>
            ELSE <<"  Total: " \o ToString(total_injected) \o "/" \o ToString(total_pods)
                   \o " pods have sidecar ("
                   \o ToString((total_injected * 100) \div total_pods) \o "%)", "">>
                 \o [i \in 1..Len(names) |->
                        CoverageLine(names[i], DictGet(scan.ns_injected, names[i], 0),
                                     DictGet(scan.ns_total, names[i], 0))])
        \o <<"">>

\* sorted(items, key=-count): stable, descending by count.
SortByCountDesc(d) ==
    LET Before(i, j) == d[i].v > d[j].v \/ (d[i].v = d[j].v /\ i < j)
        rank(i) == Cardinality({j \in 1..Len(d) : Before(j, i)}) + 1
    IN  [r \in 1..Len(d) |-> d[CHOOSE i \in 1..Len(d) : rank(i) = r]]

VersionLines(proxy_versions) ==
    <<"Proxy Version Consistency:", RULE_SINGLE>>
    \o (IF proxy_versions = <<>>
        THEN <<"  N/A (no sidecars detected)">>
        ELSE IF Len(proxy_versions) = 1
        THEN <<"  " \o OK_MARK \o " All " \o ToString(proxy_versions[1].v)
               \o " proxies running version: " \o proxy_versions[1].k>>
        ELSE <<"  " \o WARN_MARK \o " Mixed versions detected ("
               \o ToString(Len(proxy_versions)) \o " versions):">>
             \o LET sorted == SortByCountDesc(proxy_versions)
                IN  [i \in 1..Len(sorted) |->
                        "    - " \o sorted[i].k \o ": " \o ToString(sorted[i].v)
                        \o " proxies"])
    \o <<"">>

\* len(addresses) over the subsets of one Endpoints object
AddressCount(ep) ==
    LET subsets == IF IsNone(ep.subsets) THEN <<>> ELSE Get(ep.subsets)
        f[i \in 0..Len(subsets)] ==
            IF i = 0 THEN 0
            ELSE f[i - 1] + (IF IsNone(subsets[i].addresses) THEN 0
                             ELSE Get(subsets[i].addresses))
    IN  f[Len(subsets)]

\* ep_map: "namespace/name" -> number of addresses; a later object with the
\* same key overwrites.
EndpointMap(endpoints) ==
    LET f[i \in 0..Len(endpoints)] ==
            IF i = 0 THEN <<>>
            ELSE DictSet(f[i - 1], PodRef(endpoints[i]), AddressCount(endpoints[i]))
    IN  f[Len(endpoints)]

\* A faulty variant: headless services are not skipped.
NoEndpointServices_HeadlessListed(services, endpoints) ==
    LET ep_map == EndpointMap(endpoints)
    IN  Concat([i \in 1..Len(services) |->
            IF services[i].type = "ExternalName" THEN <<>>
            ELSE IF DictGet(ep_map, PodRef(services[i]), 0) = 0
                 THEN <<PodRef(services[i])>>
                 ELSE <<>>])

NoEndpointServices(services, endpoints) ==
    LET ep_map == EndpointMap(endpoints)
    IN  Concat([i \in 1..Len(services) |->
            IF services[i].type = "ExternalName" THEN <<>>
            ELSE IF services[i].cluster_ip = "None" THEN <<>>
            ELSE IF DictGet(ep_map, PodRef(services[i]), 0) = 0
                 THEN <<PodRef(services[i])>>
                 ELSE <<>>])

MissingEndpointLines(no_endpoint_svcs) ==
    <<"Services with Missing Endpoints:", RULE_SINGLE>>
    \o (IF no_endpoint_svcs # <<>>
        THEN <<"  " \o WARN_MARK \o " " \o ToString(Len(no_endpoint_svcs))
               \o " service(s) with no ready endpoints:">>
             \o [i \in 1..Len(Take(no_endpoint_svcs, MissingEndpointsCap)) |->
                    "    - " \o no_endpoint_svcs[i]]
             \o (IF Len(no_endpoint_svcs) > MissingEndpointsCap
                 THEN <<"    ... and "
                        \o ToString(Len(no_endpoint_svcs) - MissingEndpointsCap)
                        \o " more">>
                 ELSE <<>>)
        ELSE <<"  " \o OK_MARK \o " All services have ready endpoints">>)
    \o <<"">>

\* istio_crds and crd_labels, in their common order.
IstioCrds ==
    <<[plural |-> "virtualservices", label |-> "VirtualServices"],
      [plural |-> "destinationrules", label |-> "DestinationRules"],
      [plural |-> "gateways", label |-> "Gateways"],
      [plural |-> "serviceentries", label |-> "ServiceEntries"],
      [plural |-> "peerauthentications", label |-> "PeerAuthentications"]>>

\* ", ".join(parts)
JoinComma(parts) ==
    LET f[i \in 0..Len(parts)] ==
            IF i = 0 THEN ""
            ELSE IF i = 1 THEN parts[1] ELSE f[i - 1] \o ", " \o parts[i]
    IN  f[Len(parts)]

CrdLine(label, items) ==
    IF IsNone(items)
    THEN "  - " \o label \o ": CRD not installed"
    ELSE IF Get(items) # <<>>
    THEN LET its == Get(items)
             ns(i) == IF IsNone(its[i].namespace) THEN "<cluster>"
                      ELSE Get(its[i].namespace)
             names == SortedNamespaces({ns(i) : i \in 1..Len(its)})
             count(n) == Cardinality({i \in 1..Len(its) : ns(i) = n})
         IN  "  " \o label \o " (" \o ToString(Len(its)) \o "): "
             \o JoinComma([i \in 1..Len(names) |->
                              names[i] \o ": " \o ToString(count(names[i]))])
    ELSE "  " \o label \o ": 0"

IstioConfigLines(istio_resources) ==
    <<"Istio Configuration:", RULE_SINGLE>>
    \o [i \in 1..Len(IstioCrds) |->
           CrdLine(IstioCrds[i].label, DictGet(istio_resources, IstioCrds[i].plural, None))]
    \o (IF \A i \in 1..Len(IstioCrds) :
              IsNone(DictGet(istio_resources, IstioCrds[i].plural, None))
        THEN <<"  " \o WARN_MARK \o " No Istio CRDs found - Istio is not installed">>
        ELSE <<>>)
    \o <<"">>

NetworkPolicyLines(net_policies) ==
    <<"NetworkPolicies:", RULE_SINGLE>>
    \o (IF net_policies = <<>>
        THEN <<"No NetworkPolicies defined (all pod-to-pod traffic is allowed)">>
        ELSE LET names == SortedNamespaces({net_policies[i].namespace :
                                               i \in 1..Len(net_policies)})
             IN  <<"  Total: " \o ToString(Len(net_policies))>>
                 \o [i \in 1..Len(names) |->
                        "    " \o names[i] \o ": "
                        \o ToString(CountIn(net_policies, names[i]))])
    \o <<"">>

ControlPlaneLines(istio_pods) ==
    <<"Istio Control Plane:", RULE_SINGLE>>
    \o (IF istio_pods = <<>>
        THEN <<"  " \o WARN_MARK
               \o " No pods found in istio-system (Istio may not be installed)">>
        ELSE [i \in 1..Len(istio_pods) |->
                 "  " \o (IF istio_pods[i].phase = "Running" THEN OK_MARK ELSE BAD_MARK)
                 \o " " \o istio_pods[i].name \o ": " \o istio_pods[i].phase])
    \o <<"">>

NetworkingFormat(namespace, f) ==
    LET scan == SidecarScan(f.all_pods)
    IN  Return(<<"Networking & Istio Diagnostics ("
                 \o (IF namespace # "" THEN "Namespace: " \o namespace
                     ELSE "All Namespaces") \o "):",
                 RULE_DOUBLE, "">>
               \o ControlPlaneLines(f.istio_pods)
               \o SidecarLines(scan)
               \o VersionLines(scan.proxy_versions)
               \o MissingEndpointLines(NoEndpointServices(f.services, f.endpoints))
               \o IstioConfigLines(f.istio_resources)
               \o NetworkPolicyLines(f.net_policies))

-----------------------------------------------------------------------------
(* The cluster API as the _fetch functions see it.  api maps the name of a *)
(* client call to its response: data, or the exception the call raises.    *)
(* A _fetch ends with [out, errors]: out is what it returns or raises,     *)
(* errors are the [call, exc] pairs of the calls that raised (caught or    *)
(* not).                                                                   *)

Ok(data) == [exc |-> None, data |-> data]
Err(e) == [exc |-> Some(e), data |-> <<>>]

Fetched(out, errors) == [out |-> out, errors |-> errors]

\* Calls made one after the other with no try around them: the first one
\* that raises ends the _fetch.
FirstFailure(api, calls) ==
    LET bad == {i \in 1..Len(calls) : ~IsNone(api[calls[i]].exc)}
    IN  IF bad = {} THEN 0 ELSE CHOOSE i \in bad : \A k \in bad : i <= k

CallError(api, call) == [call |-> call, exc |-> Get(api[call].exc)]

\* A _fetch made of uncaught calls only; Result is what it returns.
Sequential(api, calls, result) ==
    LET k == FirstFailure(api, calls)
    IN  IF k = 0 THEN Fetched(Return(result), {})
        ELSE Fetched(Raise(Get(api[calls[k]].exc)), {CallError(api, calls[k])})

ClusterInfoCalls == <<"get_code", "get_api_resources", "list_node", "list_namespace">>

ClusterInfoFetch(api) ==
    Sequential(api, ClusterInfoCalls,
               [version_info |-> api["get_code"].data,
                node_count |-> Len(api["list_node"].data),
                ns_count |-> Len(api["list_namespace"].data)])

NodeHealthFetch(api) == Sequential(api, <<"list_node">>, api["list_node"].data)

ListPodsCall(namespace) ==
    IF namespace # "" THEN "list_namespaced_pod" ELSE "list_pod_for_all_namespaces"

PodHealthFetch(namespace, api) ==
    Sequential(api, <<ListPodsCall(namespace)>>, api[ListPodsCall(namespace)].data)

PodMetricsCall(namespace) ==
    IF namespace # "" THEN "list_namespaced_custom_object:pods"
    ELSE "list_cluster_custom_object:pods"

UsageCalls(namespace) == <<"list_cluster_custom_object:nodes", PodMetricsCall(namespace)>>

UsageFetch(namespace, api) ==
    Sequential(api, UsageCalls(namespace),
               [node_metrics |-> api["list_cluster_custom_object:nodes"].data,
                pod_metrics |-> api[PodMetricsCall(namespace)].data])

DiagnoseCalls == <<"list_node", "list_pod_for_all_namespaces">>

DiagnoseFetch(api) ==
    Sequential(api, DiagnoseCalls,
               [nodes |-> api["list_node"].data,
                pods |-> api["list_pod_for_all_namespaces"].data])

NamespaceSummaryCalls ==
    <<"list_namespace", "list_pod_for_all_namespaces",
      "list_service_for_all_namespaces", "list_deployment_for_all_namespaces">>

NamespaceSummaryFetch(api) ==
    Sequential(api, NamespaceSummaryCalls,
               [namespaces |-> api["list_namespace"].data,
                all_pods |-> api["list_pod_for_all_namespaces"].data,
                all_services |-> api["list_service_for_all_namespaces"].data,
                all_deployments |-> api["list_deployment_for_all_namespaces"].data])

\* check_networking._fetch
IstioSystemCall == "list_namespaced_pod:istio-system"

NetworkingPlainCalls(namespace) ==
    IF namespace # ""
    THEN <<"list_namespaced_pod", "list_namespaced_service",
           "list_namespaced_endpoints", "list_namespaced_network_policy">>
    ELSE <<"list_pod_for_all_namespaces", "list_service_for_all_namespaces",
           "list_endpoints_for_all_namespaces",
           "list_network_policy_for_all_namespaces">>

CrdCall(namespace, plural) ==
    (IF namespace # "" THEN "list_namespaced_custom_object:"
     ELSE "list_cluster_custom_object:") \o plural

\* A faulty variant: the handler takes the not-found answer only.
CaughtAsApiException_NotFoundOnly(e) == e.type = "ApiException" /\ e.status = 404

\* except ApiException: the handler of the istio-system and the CRD lookups
CaughtAsApiException(e) == e.type = "ApiException"

NetworkingFetch(namespace, api) ==
    LET plain == NetworkingPlainCalls(namespace)
        crd(i) == CrdCall(namespace, IstioCrds[i].plural)
        istioErr == IF IsNone(api[IstioSystemCall].exc) THEN {}
                    ELSE {CallError(api, IstioSystemCall)}
        k == FirstFailure(api, plain)
        crdBad == {i \in 1..Len(IstioCrds) : ~IsNone(api[crd(i)].exc)}
        crdFatal == {i \in crdBad : ~CaughtAsApiException(Get(api[crd(i)].exc))}
        firstFatal == CHOOSE i \in crdFatal : \A j \in crdFatal : i <= j
    IN  IF istioErr # {} /\ ~CaughtAsApiException(Get(api[IstioSystemCall].exc))
        THEN Fetched(Raise(Get(api[IstioSystemCall].exc)), istioErr)
        ELSE IF k # 0
        THEN Fetched(Raise(Get(api[plain[k]].exc)),
                     istioErr \cup {CallError(api, plain[k])})
        ELSE IF crdFatal # {}
        THEN Fetched(Raise(Get(api[crd(firstFatal)].exc)),
                     istioErr \cup {CallError(api, crd(i)) : i \in {j \in crdBad : j <= firstFatal}})
        ELSE Fetched(
                Return([istio_pods |-> IF istioErr = {} THEN api[IstioSystemCall].data
                                       ELSE <<>>,
                        all_pods |-> api[plain[1]].data,
                        services |-> api[plain[2]].data,
                        endpoints |-> api[plain[3]].data,
                        net_policies |-> api[plain[4]].data,
                        istio_resources |->
                            [i \in 1..Len(IstioCrds) |->
                                [k |-> IstioCrds[i].plural,
                                 v |-> IF i \in crdBad THEN None
                                       ELSE Some(api[crd(i)].data)]]]),
                istioErr \cup {CallError(api, crd(i)) : i \in crdBad})

-----------------------------------------------------------------------------
(* The cluster the server talks to: what each client call may answer.      *)

ContainerStatus(name, ready, waiting, terminated, restart_count) ==
    [name |-> name, ready |-> ready, waiting |-> waiting,
     terminated |-> terminated, restart_count |-> restart_count]

Pod(namespace, name, phase, container_statuses, containers) ==
    [namespace |-> namespace, name |-> name, phase |-> phase,
     container_statuses |-> container_statuses, containers |-> containers]

Condition(type, status) == [type |-> type, status |-> status]

Node(name, conditions) ==
    [name |-> name, conditions |-> conditions,
     capacity |-> <<[k |-> "cpu", v |-> "4"], [k |-> "memory", v |-> "16Gi"]>>,
     allocatable |-> <<[k |-> "cpu", v |-> "3"], [k |-> "pods", v |-> "110"]>>]

WebPod ==
    Pod("default", "web", "Running",
        Some(<<ContainerStatus("app", TRUE, None, None, 0)>>),
        Some(<<[name |-> "app", image |-> Some(<<"nginx", "1.25">>)],
               [name |-> "istio-proxy", image |-> Some(<<"istio/proxyv2", "1.20.0">>)]>>))

JobPod ==
    Pod("ns1", "job", "Pending",
        Some(<<ContainerStatus("main", FALSE, Some("ImagePullBackOff"), None, 6)>>),
        Some(<<[name |-> "main", image |-> Some(<<"busybox">>)]>>))

HealthyNode ==
    Node("node-a", Some(<<Condition("Ready", "True"),
                          Condition("MemoryPressure", "False")>>))
SickNode ==
    Node("node-b", Some(<<Condition("Ready", "Unknown"),
                          Condition("DiskPressure", "True")>>))
NodeMetric(name, cpu, memory) == [name |-> name, cpu |-> cpu, memory |-> memory]

PodMetric(namespace, name, containers) ==
    [namespace |-> namespace, name |-> name, containers |-> containers]

\* What a call answers when it succeeds.
MainData(call) ==
    CASE call = "get_code" -> {[git_version |-> "v1.29.0", platform |-> "linux/amd64"]}
      [] call = "get_api_resources" -> {<<>>}
      [] call = "list_node" -> {<<HealthyNode>>, <<HealthyNode, SickNode>>, <<Node("node-c", None)>>}
      [] call = "list_namespace" -> {<<[name |-> "default"], [name |-> "ns1"]>>}
      [] call = "list_pod_for_all_namespaces" -> {<<>>, <<WebPod, JobPod>>}
      [] call = "list_namespaced_pod" -> {<<>>, <<JobPod>>}
      [] call = "list_service_for_all_namespaces" ->
            {<<[namespace |-> "default", name |-> "web", type |-> "ClusterIP",
                cluster_ip |-> "10.0.0.1"],
               [namespace |-> "ns1", name |-> "ext", type |-> "ExternalName",
                cluster_ip |-> ""]>>}
      [] call = "list_namespaced_service" ->
            {<<[namespace |-> "ns1", name |-> "ext", type |-> "ExternalName",
                cluster_ip |-> ""]>>}
      [] call = "list_deployment_for_all_namespaces" ->
            {<<[namespace |-> "default", name |-> "web"]>>}
      [] call = "list_endpoints_for_all_namespaces" ->
            {<<[namespace |-> "default", name |-> "web",
                subsets |-> Some(<<[addresses |-> Some(1)]>>)]>>}
      [] call = "list_namespaced_endpoints" -> {<<>>}
      [] call = "list_network_policy_for_all_namespaces" ->
            {<<[namespace |-> "ns1", name |-> "deny-all"]>>}
      [] call = "list_namespaced_network_policy" ->
            {<<[namespace |-> "ns1", name |-> "deny-all"]>>}
      [] call = IstioSystemCall -> {<<>>, <<Pod("istio-system", "istiod", "Running", None, None)>>}
      [] call = "list_cluster_custom_object:nodes" ->
            {<<NodeMetric("node-a", Quantity(250000000, 1, <<"n">>),
                          Quantity(1048576, 1, <<"K", "i">>))>>}
      [] call = "list_cluster_custom_object:pods" ->
            {<<>>,
             <<PodMetric("ns1", "job",
                         <<[cpu |-> Quantity(999999, 1, <<"n">>),
                            memory |-> Quantity(512, 1, <<"M", "i">>)]>>),
               PodMetric("default", "web",
                         <<[cpu |-> Quantity(500, 1, <<"m">>),
                            memory |-> Quantity(2, 1, <<"G", "i">>)]>>)>>}
      [] call = "list_namespaced_custom_object:pods" ->
            {<<>>,
             <<PodMetric("ns1", "job",
                         <<[cpu |-> Quantity(1000001, 1, <<"n">>),
                            memory |-> Quantity(129, 1, <<"M">>)]>>)>>}
      [] OTHER -> {<<[namespace |-> Some("ns1")]>>}

\* What a call raises when it fails.
MainErrors == {ApiException(404), ApiException(500), MaxRetryError}

\* Every way the calls can all succeed.
OkWorlds(calls) ==
    LET f[i \in 0..Len(calls)] ==
            IF i = 0 THEN {<<>>}
            ELSE {Append(w, d) : w \in f[i - 1], d \in MainData(calls[i])}
    IN  {[c \in Range(calls) |-> Ok(w[CHOOSE i \in 1..Len(calls) : calls[i] = c])] : w \in f[Len(calls)]}

\* One world in which the calls all succeed.
CalmWorld(calls) == CHOOSE w \in OkWorlds(calls) : TRUE

\* The calm world with one call raising.
OneFailing(calls, failing) ==
    {[CalmWorld(calls) EXCEPT ![c] = Err(e)] : c \in failing, e \in MainErrors}

NetworkingCalls(namespace) ==
    <<IstioSystemCall>> \o NetworkingPlainCalls(namespace)
    \o [i \in 1..Len(IstioCrds) |-> CrdCall(namespace, IstioCrds[i].plural)]

\* The worlds a networking check is run in: its calls succeed, or one of
\* them raises, or no Istio CRD is registered (each lookup answers 404).
NetworkingWorlds(namespace) ==
    LET calls == NetworkingCalls(namespace)
        crds == {CrdCall(namespace, IstioCrds[i].plural) : i \in 1..Len(IstioCrds)}
    IN  OkWorlds(calls)
        \cup OneFailing(calls, Range(calls))
        \cup {[c \in Range(calls) |->
                 IF c \in crds THEN Err(ApiException(404)) ELSE CalmWorld(calls)[c]]}

ToolCalls(name, namespace) ==
    CASE name = "get_cluster_info" -> ClusterInfoCalls
      [] name = "check_node_health" -> <<"list_node">>
      [] name = "check_pod_health" -> <<ListPodsCall(namespace)>>
      [] name = "get_resource_usage" -> UsageCalls(namespace)
      [] name = "diagnose_cluster" -> DiagnoseCalls
      [] name = "get_namespace_summary" -> NamespaceSummaryCalls
      [] name = "check_networking" -> NetworkingCalls(namespace)

\* The worlds a tool's _fetch may run in.
ApiWorlds(name, namespace) ==
    IF name = "check_networking" THEN NetworkingWorlds(namespace)
    ELSE OkWorlds(ToolCalls(name, namespace))
         \cup OneFailing(ToolCalls(name, namespace), Range(ToolCalls(name, namespace)))

-----------------------------------------------------------------------------
(* The server: init_kubernetes, list_tools, call_tool *)

Sessions == {"s1", "s2"}

\* A faulty variant: the flag is not consulted, every call loads.
init_kubernetes_Unguarded(initialized, cfg) ==
    IF cfg = "none"
    THEN [initialized |-> initialized, loaded |-> FALSE, raised |-> Some(ConfigException)]
    ELSE [initialized |-> TRUE, loaded |-> TRUE, raised |-> None]

\* A faulty variant: the flag is set before the load is tried.
init_kubernetes_FlagFirst(initialized, cfg) ==
    IF initialized
    THEN [initialized |-> TRUE, loaded |-> FALSE, raised |-> None]
    ELSE IF cfg = "none"
         THEN [initialized |-> TRUE, loaded |-> FALSE, raised |-> Some(ConfigException)]
         ELSE [initialized |-> TRUE, loaded |-> TRUE, raised |-> None]

\* init_kubernetes: the flag afterwards, whether a load succeeded, and the
\* exception it raised.
init_kubernetes(initialized, cfg) ==
    IF initialized
    THEN [initialized |-> TRUE, loaded |-> FALSE, raised |-> None]
    ELSE IF cfg = "none"
         THEN [initialized |-> FALSE, loaded |-> FALSE, raised |-> Some(ConfigException)]
         ELSE [initialized |-> TRUE, loaded |-> TRUE, raised |-> None]

\* The names list_tools returns, in order.
list_tools(variant) ==
    <<"get_cluster_info", "check_node_health", "check_pod_health",
      "get_resource_usage", "diagnose_cluster", "get_namespace_summary">>
    \o (IF variant = "http" THEN <<"check_networking">> ELSE <<>>)

\* A faulty variant: the chain of call_tool has no branch for
\* check_networking.
Dispatched_WithoutNetworking(variant) ==
    {"get_cluster_info", "check_node_health", "check_pod_health",
     "get_resource_usage", "diagnose_cluster", "get_namespace_summary"}

\* The names the if/elif chain of call_tool routes to a builder.
Dispatched(variant) ==
    {"get_cluster_info", "check_node_health", "check_pod_health",
     "get_resource_usage", "diagnose_cluster", "get_namespace_summary"}
    \cup (IF variant = "http" THEN {"check_networking"} ELSE {})

\* The branches that read arguments.get("namespace", None).
ReadsNamespace(name) ==
    name \in {"check_pod_health", "get_resource_usage", "check_networking"}

\* A faulty variant: check_networking calls _fetch() directly.
FetchThread_NetworkingOnLoop(name) ==
    IF name = "check_networking" THEN "loop" ELSE "worker"

\* The thread a builder runs its _fetch on: each awaits asyncio.to_thread.
FetchThread(name) ==
    CASE name = "get_cluster_info" -> "worker"
      [] name = "check_node_health" -> "worker"
      [] name = "check_pod_health" -> "worker"
      [] name = "get_resource_usage" -> "worker"
      [] name = "diagnose_cluster" -> "worker"
      [] name = "get_namespace_summary" -> "worker"
      [] name = "check_networking" -> "worker"

\* _fetch of the builder of a tool
RunFetch(name, namespace, api) ==
    CASE name = "get_cluster_info" -> ClusterInfoFetch(api)
      [] name = "check_node_health" -> NodeHealthFetch(api)
      [] name = "check_pod_health" -> PodHealthFetch(namespace, api)
      [] name = "get_resource_usage" -> UsageFetch(namespace, api)
      [] name = "diagnose_cluster" -> DiagnoseFetch(api)
      [] name = "get_namespace_summary" -> NamespaceSummaryFetch(api)
      [] name = "check_networking" -> NetworkingFetch(namespace, api)

\* A builder from its await to its end: out is what _fetch ended with.
AfterFetch(variant, name, namespace, out) ==
    IF name = "get_resource_usage" THEN UsageAfterFetch(namespace, out)
    ELSE IF out.kind = "raise" THEN out
    ELSE CASE name = "get_cluster_info" ->
                ClusterInfoFormat(out.value.version_info, out.value.node_count,
                                  out.value.ns_count)
           [] name = "check_node_health" -> NodeHealthFormat(out.value)
           [] name = "check_pod_health" ->
                Return(PodHealthReport(variant, namespace, out.value))
           [] name = "diagnose_cluster" ->
                DiagnoseFormat(out.value.nodes, out.value.pods)
           [] name = "get_namespace_summary" ->
                NamespaceSummaryFormat(out.value.namespaces, out.value.all_pods,
                                       out.value.all_services, out.value.all_deployments)
           [] name = "check_networking" -> NetworkingFormat(namespace, out.value)

\* A faulty variant: the handler is except ApiException.
call_tool_except_ApiOnly(outcome) ==
    IF outcome.kind = "return" THEN TextContent(outcome.value)
    ELSE IF outcome.exc.type = "ApiException"
         THEN TextContent(<<"Error: " \o outcome.exc.msg>>)
         ELSE [kind |-> "raised", exc |-> outcome.exc]

\* A faulty variant: builders append to one module-level result string, so
\* a report starts with the reports not yet sent.
call_tool_except_SharedResult(outcome) ==
    LET pending == {t \in DOMAIN inv : inv[t].pc = "done" /\ Get(inv[t].result).kind = "text"}
        before == IF pending = {} THEN <<>>
                  ELSE Get(inv[CHOOSE t \in pending : TRUE].result).text
    IN  IF outcome.kind = "return" THEN TextContent(before \o outcome.value)
        ELSE TextContent(<<"Error: " \o outcome.exc.msg>>)

\* The try/except of call_tool: except Exception takes every exception of
\* the model; what it does not take leaves call_tool.
call_tool_except(outcome) ==
    IF outcome.kind = "return" THEN TextContent(outcome.value)
    ELSE IF outcome.exc.type \in {"ApiException", "ConfigException", "AttributeError",
                                  "TypeError", "ValueError", "MaxRetryError"}
         THEN TextContent(<<"Error: " \o outcome.exc.msg>>)
         ELSE [kind |-> "raised", exc |-> outcome.exc]


-----------------------------------------------------------------------------
(* State and actions *)

\* The names a client asks for: the tools, and one that is none of them.
RequestedNames == Range(list_tools("http")) \cup {"nonexistent_tool"}

\* The arguments of a request: not a dict (None), {} and {"namespace": "ns1"}.
\* namespace is "" where arguments.get("namespace", None) is None.
RequestedArguments ==
    {[isdict |-> FALSE, namespace |-> ""],
     [isdict |-> TRUE, namespace |-> ""],
     [isdict |-> TRUE, namespace |-> "ns1"]}

Idle ==
    [pc |-> "idle", name |-> "", arguments |-> [isdict |-> TRUE, namespace |-> ""],
     init_raised |-> FALSE, fetched |-> None, result |-> None, during |-> {}]


MainInit ==
    /\ transport \in {"http", "local"}
    /\ k8s_initialized = FALSE
    /\ config_loads = 0
    /\ loop = "free"
    /\ api_threads = {}
    /\ inv = [s \in Sessions |-> Idle]

Init ==
    /\ MainInit
    /\ input = [kind |-> "none"]
    /\ output = None

\* call_tool from its start to its first await, or to its return when it
\* ends before any await.
CallTool(s, name, arguments, cfg) ==
    /\ loop = "free"
    /\ inv[s].pc = "idle"
    /\ LET init == init_kubernetes(k8s_initialized, cfg)
           \* arguments is kept as far as call_tool reads it
           call == [Idle EXCEPT !.name = name,
                                !.arguments = IF IsNone(init.raised)
                                                 /\ name \in Dispatched(transport)
                                                 /\ ReadsNamespace(name)
                                              THEN arguments ELSE Idle.arguments]
           ended(outcome) ==
               [call EXCEPT !.pc = "done", !.result = Some(call_tool_except(outcome))]
       IN  /\ k8s_initialized' = init.initialized
           /\ config_loads' = config_loads + (IF init.loaded THEN 1 ELSE 0)
           /\ IF ~IsNone(init.raised)
              THEN /\ inv' = [inv EXCEPT ![s] =
                                 [ended(Raise(Get(init.raised))) EXCEPT !.init_raised = TRUE]]
                   /\ loop' = loop
              ELSE IF name \notin Dispatched(transport)
              THEN /\ inv' = [inv EXCEPT ![s] = ended(Return(<<"Unknown tool: " \o name>>))]
                   /\ loop' = loop
              ELSE IF ReadsNamespace(name) /\ ~arguments.isdict
              THEN /\ inv' = [inv EXCEPT ![s] = ended(Raise(AttributeError))]
                   /\ loop' = loop
              ELSE /\ inv' = [inv EXCEPT ![s] =
                                 [call EXCEPT !.pc = "fetching",
                                              !.during = {t \in Sessions \ {s} :
                                                             inv[t].pc = "fetching"}]]
                   /\ loop' = IF FetchThread(name) = "worker" THEN loop ELSE s
    /\ UNCHANGED <<transport, api_threads, input, output>>

\* The _fetch of a builder runs to its end on its thread.
Fetch(s, api) ==
    /\ inv[s].pc = "fetching"
    /\ FetchThread(inv[s].name) = "worker" \/ loop = s
    /\ inv' = [t \in Sessions |->
                 IF t = s
                 THEN [inv[s] EXCEPT !.pc = "fetched",
                                     !.fetched = Some(RunFetch(inv[s].name,
                                                              inv[s].arguments.namespace,
                                                              api))]
                 ELSE [inv[t] EXCEPT !.during = @ \ {s}]]
    /\ api_threads' = api_threads \cup {FetchThread(inv[s].name)}
    /\ loop' = IF loop = s THEN "free" ELSE loop
    /\ UNCHANGED <<transport, k8s_initialized, config_loads, input, output>>

\* The event loop resumes the builder after its await; the builder formats
\* and call_tool returns.
Resume(s) ==
    /\ loop = "free"
    /\ inv[s].pc = "fetched"
    /\ inv' = [inv EXCEPT ![s].pc = "done",
                          ![s].result =
                              Some(call_tool_except(
                                  AfterFetch(transport, inv[s].name,
                                             inv[s].arguments.namespace,
                                             Get(inv[s].fetched).out)))]
    /\ UNCHANGED <<transport, k8s_initialized, config_loads, loop, api_threads,
                   input, output>>

\* A faulty variant: the record of the invocation, with what it fetched,
\* stays in the process after the reply.
Reply_KeepsRecord(s) ==
    /\ loop = "free"
    /\ inv[s].pc = "done"
    /\ inv' = [inv EXCEPT ![s].pc = "idle"]
    /\ UNCHANGED <<transport, k8s_initialized, config_loads, loop, api_threads,
                   input, output>>

\* The transport sends the result; the session may call again.
Reply(s) ==
    /\ loop = "free"
    /\ inv[s].pc = "done"
    /\ inv' = [inv EXCEPT ![s] = Idle]
    /\ UNCHANGED <<transport, k8s_initialized, config_loads, loop, api_threads,
                   input, output>>

Next ==
    \E s \in Sessions :
        \/ \E name \in RequestedNames, arguments \in RequestedArguments,
              cfg \in (IF k8s_initialized THEN {"incluster"}
                      ELSE {"incluster", "kubeconfig", "none"}) :
                CallTool(s, name, arguments, cfg)
        \/ \E api \in (IF inv[s].pc = "fetching"
                      THEN ApiWorlds(inv[s].name, inv[s].arguments.namespace)
                      ELSE {}) : Fetch(s, api)
        \/ Resume(s)
        \/ Reply(s)

Spec == Init /\ [][Next]_vars

-----------------------------------------------------------------------------
(* check_pod_health on bounded pod lists *)

\* Pods get their names from their place in the list.
Named(prefix, items) ==
    [i \in 1..Len(items) |-> [items[i] EXCEPT !.name = prefix \o ToString(i)]]

SomePhases == {"Running", "Pending", "Failed", "Succeeded", "Unknown", "Evicted"}

\* Pods of every phase, in the namespaces "default" and "ns1".
PhasePods == {Pod("default", "", phase, None, None) : phase \in SomePhases}

ContainerStatusKinds ==
    {ContainerStatus("", ready, waiting, terminated, 0) :
        ready \in BOOLEAN,
        waiting \in {None, Some("ImagePullBackOff")},
        terminated \in {None, Some("OOMKilled")}}

\* One pod with every container_statuses up to MaxContainers, or None.
IssuePods ==
    {Pod("ns1", "", phase, cs, None) :
        phase \in {"Pending", "Failed", "Unknown", "Running"},
        cs \in {None} \cup {Some(Named("c", c)) :
                              c \in SeqsUpTo(ContainerStatusKinds, MaxContainers)}}

PodHealthInputs ==
    {[kind |-> "check_pod_health", namespace |-> namespace, pods |-> Named("p", pods)] :
        namespace \in {"", "ns1"}, pods \in SeqsUpTo(PhasePods, MaxPods)}
    \cup {[kind |-> "check_pod_health", namespace |-> "", pods |-> Named("p", pods)] :
            pods \in {<<p>> : p \in IssuePods} \cup {<<JobPod, p>> : p \in IssuePods}}

PodHealthInit ==
    /\ MainInit
    /\ input \in PodHealthInputs
    /\ output = None

\* check_pod_health from its await to its return: its locals and its text.
RunPodHealth ==
    /\ input.kind = "check_pod_health"
    /\ output = None
    /\ output' = Some([status_counts |-> PodHealthScan(input.pods).status_counts,
                       problem_pods |-> PodHealthScan(input.pods).problem_pods,
                       text |-> PodHealthReport(transport, input.namespace, input.pods)])
    /\ UNCHANGED <<mainVars, input>>

SpecPodHealth == PodHealthInit /\ [][RunPodHealth]_vars

-----------------------------------------------------------------------------
(* diagnose_cluster on bounded node and pod lists *)

DiagNodeKinds ==
    {Node("", conditions) :
        conditions \in {Some(<<Condition("Ready", "True"),
                               Condition("MemoryPressure", "False")>>),
                        Some(<<Condition("Ready", "False")>>),
                        Some(<<Condition("Ready", "True"),
                               Condition("DiskPressure", "True")>>),
                        None}}

DiagPodKinds ==
    {Pod("default", "", "Running", Some(<<ContainerStatus("app", TRUE, None, None, 5)>>), None),
     Pod("default", "", "Running", Some(<<ContainerStatus("app", TRUE, None, None, 6)>>), None),
     Pod("default", "", "Running", Some(<<ContainerStatus("app", TRUE, None, None, 7),
                                          ContainerStatus("sidecar", TRUE, None, None, 9)>>),
         None),
     Pod("default", "", "Failed", None, None),
     Pod("ns1", "", "Pending", Some(<<>>), None),
     Pod("ns1", "", "Succeeded", None, None)}

\* Clusters of these nodes and pods, and the clusters of one node with one
\* condition, of each checked type and each status.
DiagnoseInputs ==
    {[kind |-> "diagnose_cluster", nodes |-> Named("node-", nodes),
      pods |-> Named("p", pods)] :
        nodes \in SeqsUpTo(DiagNodeKinds, MaxNodes),
        pods \in SeqsUpTo(DiagPodKinds, MaxDiagPods)}
    \cup {[kind |-> "diagnose_cluster",
           nodes |-> <<Node("node-1", Some(<<Condition(type, status)>>))>>,
           pods |-> <<>>] :
            type \in {"Ready", "MemoryPressure", "DiskPressure", "PIDPressure"},
            status \in {"True", "False", "Unknown"}}

\* Clusters whose collections are around DisplayCap long: nodes with four bad
\* conditions each, and pods that are all Failed, all Pending, or all running
\* with one container restarted more than RestartThreshold times.
LongDiagnoseInputs ==
    LET badNode == Node("", Some(<<Condition("Ready", "False"),
                                   Condition("MemoryPressure", "True"),
                                   Condition("DiskPressure", "True"),
                                   Condition("PIDPressure", "True")>>))
        longPod == {Pod("default", "", "Failed", None, None),
                    Pod("ns1", "", "Pending", Some(<<>>), None),
                    Pod("default", "", "Running",
                        Some(<<ContainerStatus("app", TRUE, None, None, 6)>>), None)}
    IN  {[kind |-> "diagnose_cluster",
          nodes |-> Named("node-", [i \in 1..k |-> badNode]),
          pods |-> Named("p", [i \in 1..n |-> pod])] :
            k \in {0, 2, 3}, pod \in longPod,
            n \in {DisplayCap - 1, DisplayCap, DisplayCap + 1, MaxLongList}}

DiagnoseInit ==
    /\ MainInit
    /\ transport = "http"
    /\ input \in DiagnoseInputs \cup LongDiagnoseInputs
    /\ output = None

\* diagnose_cluster from its await to its end.
RunDiagnose ==
    /\ input.kind = "diagnose_cluster"
    /\ output = None
    /\ output' = Some(DiagnoseFormat(input.nodes, input.pods))
    /\ UNCHANGED <<mainVars, input>>

SpecDiagnose == DiagnoseInit /\ [][RunDiagnose]_vars

-----------------------------------------------------------------------------
(* get_resource_usage and check_networking on given answers of the API *)

\* Metrics of k nodes and n pods.  Pod i has one container, and a second one
\* when i is even; the CPU of its first container is ((i * a + b) % 7) * 100
\* millicores, written with the suffix m, u or n in turn.
RankedUsageInputs ==
    LET node(i) == NodeMetric("", Quantity(250 * i, 1, <<"m">>),
                              Quantity(512 * i, 1, <<"M", "i">>))
        milli(i, a, b) == ((i * a + b) % 7) * 100
        cpu(i, a, b) ==
            CASE i % 3 = 0 -> Quantity(milli(i, a, b), 1, <<"m">>)
              [] i % 3 = 1 -> Quantity(milli(i, a, b) * 1000, 1, <<"u">>)
              [] OTHER -> Quantity(milli(i, a, b) * 1000000, 1, <<"n">>)
        first(i, a, b) == [cpu |-> cpu(i, a, b), memory |-> Quantity(64 * i, 1, <<"M", "i">>)]
        second == [cpu |-> Quantity(1, 4, <<>>), memory |-> Quantity(2048, 1, <<"K", "i">>)]
        pod(i, a, b) ==
            PodMetric(IF i % 2 = 0 THEN "default" ELSE "ns1", "",
                      IF i % 2 = 0 THEN <<first(i, a, b), second>> ELSE <<first(i, a, b)>>)
    IN  {[kind |-> "get_resource_usage", namespace |-> namespace,
          node_metrics |-> Named("node-", [i \in 1..k |-> node(i)]),
          pod_metrics |-> Named("p", [i \in 1..n |-> pod(i, a, b)])] :
            namespace \in {"", "ns1"}, k \in {0, 2, MaxLongList},
            n \in {0, 2, TopPods - 1, TopPods, TopPods + 1, MaxLongList},
            a \in {0, 1, 3, 6}, b \in {0, 2}}

\* Metrics whose quantities are around MilliDisplayFrom nanocores, a pod
\* without containers, and quantities with a suffix that is none of n, u, m
\* and Ki, Mi, Gi.
SpecialUsageInputs ==
    LET mem == Quantity(128, 1, <<"M", "i">>)
        one(cpu, memory) == <<[cpu |-> cpu, memory |-> memory]>>
        podContainers ==
            {<<>>,
             one(Quantity(MilliDisplayFrom - 1, 1, <<"n">>), mem),
             one(Quantity(MilliDisplayFrom, 1, <<"n">>), mem),
             one(Quantity(MilliDisplayFrom + 1, 1, <<"n">>), mem),
             one(Quantity(999, 1, <<"u">>), mem) \o one(Quantity(999, 1, <<"n">>), mem),
             one(Quantity(1500, 1, <<"m">>), mem),
             one(Quantity(100, 1, <<"k">>), mem),
             one(Quantity(100, 1, <<"m">>), Quantity(129, 1, <<"M">>)),
             one(Quantity(100, 1, <<"m">>), Quantity(1, 1, <<"T", "i">>))}
        nodes ==
            {<<NodeMetric("node-1", Quantity(250, 1, <<"m">>), mem)>>,
             <<NodeMetric("node-1", Quantity(250, 1, <<"m">>), Quantity(129, 1, <<"M">>))>>,
             <<NodeMetric("node-1", Quantity(2, 1, <<"c">>), mem)>>}
    IN  {[kind |-> "get_resource_usage", namespace |-> "",
          node_metrics |-> node_metrics,
          pod_metrics |-> Named("p", [i \in 1..Len(cs) |-> PodMetric("default", "", cs[i])])] :
            node_metrics \in nodes, cs \in SeqsUpTo(podContainers, 1) \cup {<<c1, c2>> : c1, c2 \in podContainers}}

\* The API as check_networking finds it for all namespaces: the pods, services
\* and endpoints given, no pod in istio-system, no network policy, and the
\* five CRD lookups answering crd[1] .. crd[5].
MeshWorld(pods, services, endpoints, crd) ==
    LET plain == NetworkingPlainCalls("")
    IN  [c \in Range(NetworkingCalls("")) |->
            IF c \in {IstioSystemCall, plain[4]} THEN Ok(<<>>)
            ELSE IF c = plain[1] THEN Ok(pods)
            ELSE IF c = plain[2] THEN Ok(services)
            ELSE IF c = plain[3] THEN Ok(endpoints)
            ELSE crd[CHOOSE i \in 1..Len(IstioCrds) : c = CrdCall("", IstioCrds[i].plural)]]

\* Up to MaxMeshPods pods without containers, without a sidecar, with one
\* istio-proxy container, with two, or with one whose image has no tag, all
\* in one namespace or in two in turn.
MeshPodLists ==
    LET app == [name |-> "app", image |-> Some(<<"nginx", "1.25">>)]
        proxy(tag) == [name |-> "istio-proxy", image |-> Some(<<"istio/proxyv2", tag>>)]
        kinds == {None, Some(<<app>>), Some(<<app, proxy("1.20.0")>>),
                  Some(<<proxy("1.20.0"), proxy("1.21.0")>>),
                  Some(<<[name |-> "istio-proxy", image |-> Some(<<"proxyv2">>)]>>)}
    IN  {Named("p", [i \in 1..Len(cs) |->
                        Pod(IF alt /\ i % 2 = 0 THEN "ns1" ELSE "default", "", "Running",
                            None, cs[i])]) :
            cs \in SeqsUpTo(kinds, MaxMeshPods), alt \in BOOLEAN}

\* n services and their endpoints.  In the pattern "bare" every service has a
\* cluster IP and no endpoints object; in the pattern "mixed" the services
\* are in turn of type ExternalName, headless, with a ready address, with an
\* endpoints object without addresses, and with an endpoints object of their
\* name in another namespace only.
MeshServiceLists ==
    LET svc(i, mixed) ==
            [namespace |-> "default", name |-> "",
             type |-> IF mixed /\ i % 5 = 0 THEN "ExternalName" ELSE "ClusterIP",
             cluster_ip |-> IF mixed /\ i % 5 = 0 THEN ""
                            ELSE IF mixed /\ i % 5 = 1 THEN "None" ELSE "10.0.0.1"]
        ep(i) ==
            CASE i % 5 = 2 -> <<[namespace |-> "default", name |-> "svc" \o ToString(i),
                                 subsets |-> Some(<<[addresses |-> None],
                                                    [addresses |-> Some(1)]>>)]>>
              [] i % 5 = 3 -> <<[namespace |-> "default", name |-> "svc" \o ToString(i),
                                 subsets |-> IF i % 2 = 0 THEN None
                                             ELSE Some(<<[addresses |-> None]>>)]>>
              [] i % 5 = 4 -> <<[namespace |-> "ns2", name |-> "svc" \o ToString(i),
                                 subsets |-> Some(<<[addresses |-> Some(2)]>>)]>>
              [] OTHER -> <<>>
    IN  {[services |-> Named("svc", [i \in 1..n |-> svc(i, mixed)]),
          endpoints |-> IF mixed THEN Concat([i \in 1..n |-> ep(i)]) ELSE <<>>] :
            n \in {0, 1, 5, MissingEndpointsCap - 1, MissingEndpointsCap,
                   MissingEndpointsCap + 1, MaxServices},
            mixed \in BOOLEAN}

\* The worlds check_networking is run in: the pod lists, the service lists,
\* and every way the five CRD lookups answer items, no item or an exception.
NetworkingInputs ==
    LET installed == [i \in 1..Len(IstioCrds) |-> Ok(<<>>)]
        answers == {Ok(<<[namespace |-> Some("ns1")], [namespace |-> None],
                         [namespace |-> Some("ns1")]>>),
                    Ok(<<>>), Err(ApiException(404)), Err(ApiException(500)),
                    Err(MaxRetryError)}
    IN  {[kind |-> "check_networking", namespace |-> "", api |-> api] :
            api \in {MeshWorld(pods, <<>>, <<>>, installed) : pods \in MeshPodLists}
                    \cup {MeshWorld(<<>>, l.services, l.endpoints, installed) :
                             l \in MeshServiceLists}
                    \cup {MeshWorld(<<>>, <<>>, <<>>, crd) :
                             crd \in [1..Len(IstioCrds) -> answers]}}

ReportInit ==
    /\ MainInit
    /\ transport = "http"
    /\ input \in RankedUsageInputs \cup SpecialUsageInputs \cup NetworkingInputs
    /\ output = None

\* get_resource_usage from its await to its end: result is what it ends
\* with, shown the pods of the last loop with their cpu_str.
RunUsage ==
    /\ input.kind = "get_resource_usage"
    /\ output = None
    /\ output' =
           LET usage == AllOrRaise([i \in 1..Len(input.pod_metrics) |->
                                       PodUsage(input.pod_metrics[i])])
               top == IF usage.kind = "raise" THEN <<>> ELSE TopUsage(usage.value)
           IN  Some([result |-> UsageAfterFetch(input.namespace,
                                    Return([node_metrics |-> input.node_metrics,
                                            pod_metrics |-> input.pod_metrics])),
                     shown |-> [i \in 1..Len(top) |->
                                   [namespace |-> top[i].namespace, name |-> top[i].name,
                                    cpu_str |-> PodCpuText(top[i])]]])
    /\ UNCHANGED <<mainVars, input>>

\* check_networking from its start to its end, in the API of the input:
\* result is what it ends with, scan the counters of its loop over all_pods.
RunNetworking ==
    /\ input.kind = "check_networking"
    /\ output = None
    /\ output' =
           LET out == NetworkingFetch(input.namespace, input.api).out
           IN  Some([result |-> AfterFetch("http", "check_networking", input.namespace, out),
                     scan |-> IF out.kind = "raise" THEN SidecarScan(<<>>)
                              ELSE SidecarScan(out.value.all_pods)])
    /\ UNCHANGED <<mainVars, input>>

SpecReports == ReportInit /\ [][RunUsage \/ RunNetworking]_vars

-----------------------------------------------------------------------------
(* Claims about check_pod_health (under SpecPodHealth) *)

HowMany(pods, phases) == Cardinality({i \in 1..Len(pods) : pods[i].phase \in phases})

\* The fetched pods whose phase is Failed, Unknown or Pending, in fetch order.
ExpectedProblemPods(pods) ==
    LET idx == SelectIdx(pods, {p \in Range(pods) :
                                 p.phase \in {"Failed", "Unknown", "Pending"}})
    IN  [i \in 1..Len(idx) |-> pods[idx[i]]]

\* C8: every fetched pod is counted exactly once under its phase (a phase
\* outside the five known ones under its literal name); the problem-pod list
\* holds exactly the pods whose phase is Failed, Unknown or Pending; so the
\* number of problem pods is the sum of the three counts.
C8_PodsCountedOnceAndProblemsByPhase ==
    ~IsNone(output) =>
        LET out == Get(output)
            pods == input.pods
            counts == out.status_counts
            problems == out.problem_pods
            expected == ExpectedProblemPods(pods)
        IN  /\ \A i, j \in 1..Len(counts) : counts[i].k = counts[j].k => i = j
            /\ \A phase \in SomePhases :
                   DictGet(counts, phase, 0) = HowMany(pods, {phase})
            /\ DictSum(counts) = Len(pods)
            /\ Len(problems) = Len(expected)
            /\ \A i \in 1..Len(problems) :
                   /\ problems[i].name = expected[i].name
                   /\ problems[i].namespace = expected[i].namespace
                   /\ problems[i].phase = expected[i].phase
            /\ Len(problems) = DictGet(counts, "Failed", 0) + DictGet(counts, "Unknown", 0)
                               + DictGet(counts, "Pending", 0)
            /\ Len(problems) > 0 =>
                   ProblemPodsHeader(transport, HowMany(pods, {"Failed", "Unknown", "Pending"}))
                       \in Range(out.text)
            /\ \A i \in 1..Len(pods) :
                   ("  Pod: " \o PodRef(pods[i])) \in Range(out.text)
                       <=> pods[i].phase \in {"Failed", "Unknown", "Pending"}

\* Three pods: one of an unseen phase, one Failed, one Pending.
C8_Witness ==
    /\ ~IsNone(output)
    /\ input.kind = "check_pod_health"
    /\ Len(input.pods) = 3
    /\ {input.pods[i].phase : i \in 1..3} = {"Evicted", "Failed", "Pending"}
    /\ Len(Get(output).problem_pods) = 2
    /\ DictGet(Get(output).status_counts, "Evicted", 0) = 1

WaitingIssue(cs) == cs.name \o ": " \o Get(cs.waiting)
TerminatedIssue(cs) == cs.name \o ": Terminated - " \o Get(cs.terminated)

\* The issue strings that can come from one container status.
IssuesOf(cs) ==
    (IF IsNone(cs.waiting) THEN {} ELSE {WaitingIssue(cs)})
    \cup (IF IsNone(cs.terminated) THEN {} ELSE {TerminatedIssue(cs)})

\* C9: the issue strings of a problem pod come only from containers with
\* ready=false, at most one per container, and a container with both a
\* waiting and a terminated state is reported with its waiting reason.
C9_IssuesFromUnreadyWaitingFirst ==
    ~IsNone(output) =>
        LET problems == Get(output).problem_pods
            expected == ExpectedProblemPods(input.pods)
        IN  \A k \in 1..Len(problems) :
                LET issues == problems[k].issues
                    statuses == IF IsNone(expected[k].container_statuses) THEN <<>>
                                ELSE Get(expected[k].container_statuses)
                    reported(c) == {i \in 1..Len(issues) : issues[i] \in IssuesOf(statuses[c])}
                IN  /\ \A i \in 1..Len(issues) :
                           \E c \in 1..Len(statuses) :
                               ~statuses[c].ready /\ issues[i] \in IssuesOf(statuses[c])
                    /\ \A c \in 1..Len(statuses) :
                           /\ Cardinality(reported(c)) <= 1
                           /\ statuses[c].ready => reported(c) = {}
                           /\ ~statuses[c].ready /\ ~IsNone(statuses[c].waiting) =>
                                  /\ WaitingIssue(statuses[c]) \in Range(issues)
                                  /\ ("    - " \o WaitingIssue(statuses[c]))
                                         \in Range(Get(output).text)
                                  /\ ~IsNone(statuses[c].terminated) =>
                                         TerminatedIssue(statuses[c]) \notin Range(issues)

\* A Pending pod with an unready container that is both waiting and
\* terminated, and a ready container with a waiting state.
C9_Witness ==
    /\ ~IsNone(output)
    /\ input.kind = "check_pod_health"
    /\ \E k \in 1..Len(input.pods) :
           /\ input.pods[k].phase = "Pending"
           /\ ~IsNone(input.pods[k].container_statuses)
           /\ LET cs == Get(input.pods[k].container_statuses)
              IN  /\ Len(cs) = 2
                  /\ ~cs[1].ready /\ ~IsNone(cs[1].waiting) /\ ~IsNone(cs[1].terminated)
                  /\ cs[2].ready /\ ~IsNone(cs[2].waiting)
    /\ \E k \in 1..Len(Get(output).problem_pods) :
           Get(output).problem_pods[k].issues = <<"c1: ImagePullBackOff">>

\* C24: for the tools of both variants the local variant and the HTTP
\* variant return the same text for the same arguments and the same fetched
\* data: the text check_pod_health has built in the variant that ran is the
\* text the other variant builds from the same namespace and pods.
C24_VariantsSameText ==
    (~IsNone(output) /\ input.kind = "check_pod_health") =>
        /\ Get(output).text = PodHealthReport(transport, input.namespace, input.pods)
        /\ Get(output).text
               = PodHealthReport(IF transport = "http" THEN "local" ELSE "http",
                                 input.namespace, input.pods)

-----------------------------------------------------------------------------
(* Claims about diagnose_cluster (under SpecDiagnose) *)

HealthyLine == OK_MARK \o " No critical issues detected"

HasNodeIssue(nodes) ==
    \E i \in 1..Len(nodes) : \E j \in 1..Len(Get(nodes[i].conditions)) :
        LET c == Get(nodes[i].conditions)[j]
        IN  \/ c.type = "Ready" /\ c.status # "True"
            \/ c.type \in {"MemoryPressure", "DiskPressure", "PIDPressure"}
               /\ c.status = "True"

HasPhase(pods, phase) == \E i \in 1..Len(pods) : pods[i].phase = phase

HasHighRestart(pods) ==
    \E i \in 1..Len(pods) :
        /\ ~IsNone(pods[i].container_statuses)
        /\ \E j \in 1..Len(Get(pods[i].container_statuses)) :
               Get(pods[i].container_statuses)[j].restart_count > 5

\* The places of the section headers in a text, 0 when absent.
HeaderAt(text, headers) ==
    LET hit == {i \in 1..Len(text) : text[i] \in headers}
    IN  IF hit = {} THEN 0 ELSE CHOOSE i \in hit : \A k \in hit : i <= k

CountedHeaders(title) == {title \o " (" \o ToString(n) \o "):" : n \in 0..MaxLongList}

\* C10: the healthy message is emitted iff the four collections are all
\* empty; otherwise there is a section for exactly the non-empty collections,
\* in the order node issues, failed, pending, high-restart pods; the healthy
\* message never comes with a section.
C10_HealthyIffAllEmpty ==
    (~IsNone(output) /\ Get(output).kind = "return") =>
        LET text == Get(output).value
            nodeAt == HeaderAt(text, {"Node Issues:"})
            failedAt == HeaderAt(text, CountedHeaders("Failed Pods"))
            pendingAt == HeaderAt(text, CountedHeaders("Pending Pods"))
            restartAt == HeaderAt(text, CountedHeaders("Pods with High Restart Count"))
            present == <<nodeAt, failedAt, pendingAt, restartAt>>
        IN  /\ HealthyLine \in Range(text)
                <=> (~HasNodeIssue(input.nodes) /\ ~HasPhase(input.pods, "Failed")
                     /\ ~HasPhase(input.pods, "Pending") /\ ~HasHighRestart(input.pods))
            /\ nodeAt # 0 <=> HasNodeIssue(input.nodes)
            /\ failedAt # 0 <=> HasPhase(input.pods, "Failed")
            /\ pendingAt # 0 <=> HasPhase(input.pods, "Pending")
            /\ restartAt # 0 <=> HasHighRestart(input.pods)
            /\ \A a, b \in 1..4 : (a < b /\ present[a] # 0 /\ present[b] # 0)
                                     => present[a] < present[b]
            /\ HealthyLine \in Range(text) => \A a \in 1..4 : present[a] = 0
            /\ Cardinality({i \in 1..Len(text) :
                               text[i] \in {"Node Issues:"}
                                   \cup CountedHeaders("Failed Pods")
                                   \cup CountedHeaders("Pending Pods")
                                   \cup CountedHeaders("Pods with High Restart Count")})
                   = Cardinality({a \in 1..4 : present[a] # 0})

\* A report with a node-issue and a high-restart section and no other.
C10_Witness ==
    /\ ~IsNone(output)
    /\ input.kind = "diagnose_cluster"
    /\ Get(output).kind = "return"
    /\ HasNodeIssue(input.nodes) /\ HasHighRestart(input.pods)
    /\ ~HasPhase(input.pods, "Failed") /\ ~HasPhase(input.pods, "Pending")
    /\ "Node Issues:" \in Range(Get(output).value)
    /\ "Pods with High Restart Count (1):" \in Range(Get(output).value)

\* The number of entries a section displays: the lines below the header at
\* place at that are the bullet of the entry of the same rank.
ShownBelow(text, at, entries) ==
    Cardinality({i \in 1..Len(entries) :
                    at + i <= Len(text) /\ text[at + i] = "  - " \o entries[i]})

OverflowLine(n) == "  ... and " \o ToString(n - DisplayCap) \o " more"

\* A section that displays at most DisplayCap entries and, when it has more,
\* is followed by the line counting the others.
SectionCapped(text, at, entries) ==
    at # 0 =>
        /\ ShownBelow(text, at, entries) <= DisplayCap
        /\ Len(entries) > DisplayCap =>
               /\ at + DisplayCap + 1 <= Len(text)
               /\ text[at + DisplayCap + 1] = OverflowLine(Len(entries))

\* C11: in the diagnose_cluster report each of the four collections (node
\* issues, failed pods, pending pods, high-restart pods) displays at most 10
\* entries, and a collection of N > 10 entries is followed by the line
\* "... and N-10 more".
C11_EveryCollectionCapped ==
    (~IsNone(output) /\ Get(output).kind = "return") =>
        LET text == Get(output).value
        IN  /\ SectionCapped(text, HeaderAt(text, {"Node Issues:"}),
                             DiagnoseNodeIssues(input.nodes))
            /\ SectionCapped(text, HeaderAt(text, CountedHeaders("Failed Pods")),
                             PodsInPhase(input.pods, "Failed"))
            /\ SectionCapped(text, HeaderAt(text, CountedHeaders("Pending Pods")),
                             PodsInPhase(input.pods, "Pending"))
            /\ SectionCapped(text,
                             HeaderAt(text, CountedHeaders("Pods with High Restart Count")),
                             DiagnoseHighRestartPods(input.pods))

\* C12: the failed-pod section has the header "Failed Pods (N):" with N the
\* number of Failed pods, displays exactly the first min(N, 10) of them in
\* fetch order, and has the line "... and N-10 more" iff N > 10.
C12_FailedPodsFirstTen ==
    (~IsNone(output) /\ Get(output).kind = "return") =>
        LET text == Get(output).value
            failed == SelectIdx(input.pods,
                                {input.pods[i] : i \in {j \in 1..Len(input.pods) :
                                                          input.pods[j].phase = "Failed"}})
            N == Len(failed)
            shown == IF N < 10 THEN N ELSE 10
            at == HeaderAt(text, CountedHeaders("Failed Pods"))
        IN  IF N = 0 THEN at = 0
            ELSE /\ at # 0
                 /\ text[at] = "Failed Pods (" \o ToString(N) \o "):"
                 /\ at + shown + 1 <= Len(text)
                 /\ \A i \in 1..shown :
                        text[at + i] = "  - " \o input.pods[failed[i]].namespace
                                       \o "/" \o input.pods[failed[i]].name
                 /\ IF N > 10
                    THEN text[at + shown + 1]
                             = "  ... and " \o ToString(N - 10) \o " more"
                    ELSE text[at + shown + 1] = ""
                 /\ \A i \in 1..Len(text) : \A n \in 0..MaxLongList :
                        text[i] = "  ... and " \o ToString(n) \o " more"
                            => \/ N > 10 /\ i = at + shown + 1
                               \/ i > at + shown + 1

\* Fifteen failed pods: the first ten are displayed, then "... and 5 more".
C12_Witness ==
    /\ ~IsNone(output)
    /\ input.kind = "diagnose_cluster"
    /\ Get(output).kind = "return"
    /\ Cardinality({i \in 1..Len(input.pods) : input.pods[i].phase = "Failed"}) = 15
    /\ "Failed Pods (15):" \in Range(Get(output).value)
    /\ "  - default/p10" \in Range(Get(output).value)
    /\ "  - default/p11" \notin Range(Get(output).value)
    /\ "  ... and 5 more" \in Range(Get(output).value)

\* C20: diagnose_cluster and check_node_health agree on the health of node
\* conditions: for every condition of type Ready, MemoryPressure,
\* DiskPressure or PIDPressure and every status (True, False, Unknown),
\* diagnose_cluster records a node issue for it iff check_node_health marks
\* it unhealthy (Ready is healthy iff its status is True, a pressure
\* condition iff its status is False).
C20_NodeIssueIffMarkedUnhealthy ==
    (~IsNone(output) /\ Get(output).kind = "return") =>
        \A i \in 1..Len(input.nodes) :
            \A j \in 1..Len(Get(input.nodes[i].conditions)) :
                LET node == input.nodes[i]
                    c == Get(node.conditions)[j]
                    issue == IF c.type = "Ready"
                             THEN "  - Node " \o node.name \o " is not Ready"
                             ELSE "  - Node " \o node.name \o " has " \o c.type
                    marked == "  " \o BAD_MARK \o " " \o c.type \o ": " \o c.status
                IN  c.type \in {"Ready", "MemoryPressure", "DiskPressure", "PIDPressure"}
                        => (issue \in Range(Get(output).value)
                                <=> marked \in Range(NodeHealthLines(node)))

\* C21: the high-restart collection has one entry for each pod that has a
\* container with restart_count > 5, and none for a pod whose containers
\* all have restart_count <= 5: the number in the header "Pods with High
\* Restart Count (N)" is the number of these pods.
C21_HighRestartCountsPods ==
    (~IsNone(output) /\ Get(output).kind = "return") =>
        LET text == Get(output).value
            high == {i \in 1..Len(input.pods) :
                        /\ ~IsNone(input.pods[i].container_statuses)
                        /\ \E j \in 1..Len(Get(input.pods[i].container_statuses)) :
                               Get(input.pods[i].container_statuses)[j].restart_count > 5}
            at == HeaderAt(text, CountedHeaders("Pods with High Restart Count"))
        IN  IF high = {} THEN at = 0
            ELSE /\ at # 0
                 /\ text[at] = "Pods with High Restart Count ("
                               \o ToString(Cardinality(high)) \o "):"

-----------------------------------------------------------------------------
(* Claims about get_resource_usage (under SpecReports) *)

UsageReturned ==
    /\ ~IsNone(output)
    /\ input.kind = "get_resource_usage"
    /\ Get(output).result.kind = "return"

\* The nanocores a CPU quantity stands for, by its suffix.
NanoOf(q) ==
    CASE q.suffix = <<"n">> -> q.num \div q.den
      [] q.suffix = <<"u">> -> (q.num * 1000) \div q.den
      [] q.suffix = <<"m">> -> (q.num * 1000000) \div q.den
      [] OTHER -> (1000000000 \div q.den) * q.num

\* The Ki a memory quantity stands for, by its suffix.
KiOf(q) ==
    CASE q.suffix = <<"K", "i">> -> q.num \div q.den
      [] q.suffix = <<"M", "i">> -> (q.num * 1024) \div q.den
      [] OTHER -> (q.num * 1048576) \div q.den

\* The summed CPU (nanocores) and memory (Ki) of the containers of a pod.
PodNano(pod) ==
    LET f[i \in 0..Len(pod.containers)] ==
            IF i = 0 THEN 0 ELSE f[i - 1] + NanoOf(pod.containers[i].cpu)
    IN  f[Len(pod.containers)]

PodKi(pod) ==
    LET f[i \in 0..Len(pod.containers)] ==
            IF i = 0 THEN 0 ELSE f[i - 1] + KiOf(pod.containers[i].memory)
    IN  f[Len(pod.containers)]

\* The place in pod_metrics of the pod of this name.
MetricOf(name) ==
    CHOOSE j \in 1..Len(input.pod_metrics) : input.pod_metrics[j].name = name

\* C13: with metrics available the report has one line for every node of the
\* node metrics and pod lines for at most 10 pods; the pods of these lines
\* are in non-increasing order of summed CPU, and each has at least the CPU
\* of every pod without a line; with and without a namespace argument.
C13_AllNodesTopTenPods ==
    UsageReturned =>
        LET text == Get(output).result.value
            shown == Get(output).shown
            nodes == input.node_metrics
            pods == input.pod_metrics
            K == Len(nodes)
            L == Len(shown)
            at(r) == MetricOf(shown[r].name)
        IN  /\ Len(text) = K + L + 9
            /\ SubSeq(text, 3, 5) = <<"", "Nodes:", RULE_SINGLE>>
            /\ \A i \in 1..K :
                   (nodes[i].cpu.suffix = <<"m">> /\ nodes[i].memory.suffix = <<"M", "i">>)
                       => text[5 + i] = "  " \o nodes[i].name \o ": "
                                        \o Fixed2(nodes[i].cpu.num, 1000) \o " cores, "
                                        \o Fixed2(nodes[i].memory.num, 1024) \o " GB"
            /\ SubSeq(text, K + 6, K + 9)
                   = <<"", "",
                       IF input.namespace = "" THEN "Top Pods by Resource Usage:"
                       ELSE "Pods (Namespace: " \o input.namespace \o "):",
                       RULE_SINGLE>>
            /\ L = (IF Len(pods) < 10 THEN Len(pods) ELSE 10)
            /\ \A r \in 1..L : \E j \in 1..Len(pods) : pods[j].name = shown[r].name
            /\ \A r, q \in 1..L : r # q => at(r) # at(q)
            /\ \A r \in 1..L :
                   text[K + 9 + r]
                       = "  " \o pods[at(r)].namespace \o "/" \o pods[at(r)].name \o ": "
                         \o Fixed2(PodNano(pods[at(r)]) \div 1000, 1000000) \o " cores, "
                         \o Fixed2(PodKi(pods[at(r)]), 1048576) \o " GB"
            /\ \A r \in 1..(L - 1) : PodNano(pods[at(r)]) >= PodNano(pods[at(r + 1)])
            /\ \A r \in 1..L : \A j \in 1..Len(pods) :
                   (\A q \in 1..L : at(q) # j) => PodNano(pods[at(r)]) >= PodNano(pods[j])

\* Fifteen nodes and fifteen pods of a namespace: every node has its line,
\* ten pods have one, and the first of them is not the first one fetched.
C13_Witness ==
    /\ UsageReturned
    /\ input.namespace = "ns1"
    /\ Len(input.node_metrics) = 15
    /\ Len(input.pod_metrics) = 15
    /\ Len(Get(output).shown) = 10
    /\ Get(output).shown[1].name # "p1"
    /\ PodNano(input.pod_metrics[MetricOf(Get(output).shown[1].name)])
           > PodNano(input.pod_metrics[MetricOf(Get(output).shown[10].name)])
    /\ \E j \in 1..15 : \A r \in 1..10 : Get(output).shown[r].name # input.pod_metrics[j].name

HasUnknownSuffix ==
    \/ \E i \in 1..Len(input.node_metrics) :
           \/ input.node_metrics[i].cpu.suffix \notin {<<"n">>, <<"u">>, <<"m">>, <<>>}
           \/ input.node_metrics[i].memory.suffix
                  \notin {<<"K", "i">>, <<"M", "i">>, <<"G", "i">>, <<>>}
    \/ \E i \in 1..Len(input.pod_metrics) :
           \E j \in 1..Len(input.pod_metrics[i].containers) :
               LET c == input.pod_metrics[i].containers[j]
               IN  \/ c.cpu.suffix \notin {<<"n">>, <<"u">>, <<"m">>, <<>>}
                   \/ c.memory.suffix \notin {<<"K", "i">>, <<"M", "i">>, <<"G", "i">>, <<>>}

\* C14: quantity parsing is total: with a CPU or memory quantity whose suffix
\* is none of the recognized ones, get_resource_usage still ends with its
\* report, a line for every node included, and does not fail.
C14_UnknownSuffixStillReported ==
    (~IsNone(output) /\ input.kind = "get_resource_usage" /\ HasUnknownSuffix) =>
        /\ Get(output).result.kind = "return"
        /\ Len(Get(output).result.value) >= Len(input.node_metrics) + 9

\* C15: the summed CPU of n nanocores of a pod is rendered as "{n}n" when
\* n < 1,000,000 and as "{n/1e6:.2f}m" otherwise: 999,999 gives "999999n"
\* and 1,000,001 gives "1.00m".
C15_CpuStringAtThreshold ==
    UsageReturned =>
        \A r \in 1..Len(Get(output).shown) :
            LET n == PodNano(input.pod_metrics[MetricOf(Get(output).shown[r].name)])
            IN  /\ Get(output).shown[r].cpu_str
                       = (IF n < 1000000 THEN ToString(n) \o "n"
                          ELSE Fixed2(n, 1000000) \o "m")
                /\ n = 999999 => Get(output).shown[r].cpu_str = "999999n"
                /\ n = 1000001 => Get(output).shown[r].cpu_str = "1.00m"

-----------------------------------------------------------------------------
(* Claims about check_networking (under SpecReports) *)

NetworkingDone == ~IsNone(output) /\ input.kind = "check_networking"

NetworkingReturned == NetworkingDone /\ Get(output).result.kind = "return"

MeshPods == input.api["list_pod_for_all_namespaces"].data

Injected(pod) ==
    /\ ~IsNone(pod.containers)
    /\ \E i \in 1..Len(Get(pod.containers)) : Get(pod.containers)[i].name = "istio-proxy"

InjectedIn(S) == Cardinality({i \in S : Injected(MeshPods[i])})

\* floor(injected * 100 / total)
FloorPct(injected, total) ==
    CHOOSE p \in 0..100 : p * total <= injected * 100 /\ injected * 100 < (p + 1) * total

\* C16: a pod is counted as injected iff at least one of its containers is
\* named istio-proxy, each pod at most once, and the line of each namespace
\* reads "{injected}/{total} ({pct}%)" with pct = floor(injected*100/total);
\* 3 injected pods of 4 give "3/4 (75%)".
C16_InjectedOncePerPod ==
    NetworkingReturned =>
        LET text == Get(output).result.value
            at == HeaderAt(text, {"Sidecar Injection Coverage:"})
            all == 1..Len(MeshPods)
            of(ns) == {i \in all : MeshPods[i].namespace = ns}
            names == SelectIdx(<<"default", "ns1">>, {MeshPods[i].namespace : i \in all})
            name(k) == <<"default", "ns1">>[names[k]]
            ratio(S) == ToString(InjectedIn(S)) \o "/" \o ToString(Cardinality(S))
            pct(S) == "(" \o ToString(FloorPct(InjectedIn(S), Cardinality(S))) \o "%)"
        IN  /\ at # 0
            /\ IF InjectedIn(all) = 0
               THEN /\ text[at + 2] = "  " \o WARN_MARK
                                       \o " No istio-proxy sidecars detected in any pod"
                    /\ text[at + 3] = ""
               ELSE /\ text[at + 2] = "  Total: " \o ratio(all) \o " pods have sidecar "
                                       \o pct(all)
                    /\ text[at + 3] = ""
                    /\ \A k \in 1..Len(names) :
                           \E mark \in {OK_MARK, "~", BAD_MARK} :
                               text[at + 3 + k] = "  " \o mark \o " " \o name(k) \o ": "
                                                  \o ratio(of(name(k))) \o " "
                                                  \o pct(of(name(k)))
                    /\ text[at + 4 + Len(names)] = ""

\* Four pods of one namespace, three of them with a sidecar and one of these
\* with two istio-proxy containers: the line reads "3/4 (75%)".
C16_Witness ==
    /\ NetworkingReturned
    /\ Len(MeshPods) = 4
    /\ \A i \in 1..4 : MeshPods[i].namespace = "default"
    /\ InjectedIn(1..4) = 3
    /\ \E i \in 1..4 :
           /\ ~IsNone(MeshPods[i].containers)
           /\ Cardinality({j \in 1..Len(Get(MeshPods[i].containers)) :
                               Get(MeshPods[i].containers)[j].name = "istio-proxy"}) = 2
    /\ "  ~ default: 3/4 (75%)" \in Range(Get(output).result.value)

MeshServices == input.api["list_service_for_all_namespaces"].data

MeshEndpoints == input.api["list_endpoints_for_all_namespaces"].data

\* An endpoints object with a ready address.
HasAddress(ep) ==
    /\ ~IsNone(ep.subsets)
    /\ \E k \in 1..Len(Get(ep.subsets)) :
           /\ ~IsNone(Get(ep.subsets)[k].addresses)
           /\ Get(Get(ep.subsets)[k].addresses) > 0

\* The services that are neither ExternalName nor headless and have no
\* endpoints object of their namespace and name with a ready address.
MissingServices ==
    SelectIdx(MeshServices,
              {svc \in Range(MeshServices) :
                  /\ svc.type # "ExternalName"
                  /\ svc.cluster_ip # "None"
                  /\ ~\E j \in 1..Len(MeshEndpoints) :
                         /\ MeshEndpoints[j].namespace = svc.namespace
                         /\ MeshEndpoints[j].name = svc.name
                         /\ HasAddress(MeshEndpoints[j])})

\* C17: a service is listed under missing endpoints iff it is neither of type
\* ExternalName nor headless and the endpoints object of its namespace and
\* name has no ready address or does not exist; at most 20 of them are
\* displayed, followed by "... and N-20 more" when there are N > 20.
C17_MissingEndpointsListed ==
    NetworkingReturned =>
        LET text == Get(output).result.value
            at == HeaderAt(text, {"Services with Missing Endpoints:"})
            missing == MissingServices
            N == Len(missing)
            shown == IF N < 20 THEN N ELSE 20
        IN  /\ at # 0
            /\ IF N = 0
               THEN /\ text[at + 2] = "  " \o OK_MARK \o " All services have ready endpoints"
                    /\ text[at + 3] = ""
               ELSE /\ text[at + 2] = "  " \o WARN_MARK \o " " \o ToString(N)
                                       \o " service(s) with no ready endpoints:"
                    /\ \A i \in 1..shown :
                           text[at + 2 + i] = "    - " \o MeshServices[missing[i]].namespace
                                              \o "/" \o MeshServices[missing[i]].name
                    /\ IF N > 20
                       THEN /\ text[at + 3 + shown]
                                   = "    ... and " \o ToString(N - 20) \o " more"
                            /\ text[at + 4 + shown] = ""
                       ELSE text[at + 3 + shown] = ""

\* Twenty-five services without endpoints: twenty are displayed, followed by
\* "... and 5 more"; and twenty-five services of which some are headless, of
\* type ExternalName or have a ready address: the ten others are listed.
C17_Witness ==
    /\ NetworkingReturned
    /\ Len(MeshServices) = 25
    /\ \/ /\ Len(MissingServices) = 25
          /\ "    - default/svc20" \in Range(Get(output).result.value)
          /\ "    - default/svc21" \notin Range(Get(output).result.value)
          /\ "    ... and 5 more" \in Range(Get(output).result.value)
       \/ /\ Len(MissingServices) = 10
          /\ \E i \in 1..25 : MeshServices[i].cluster_ip = "None"
          /\ \E i \in 1..25 : MeshServices[i].type = "ExternalName"
          /\ "    - default/svc24" \in Range(Get(output).result.value)
          /\ "    - default/svc22" \notin Range(Get(output).result.value)

\* C25: for every list of pods, the empty list and pods without containers
\* included, the sidecar coverage never divides by zero (the report is
\* returned, and a count by which it divides is positive), every namespace
\* has 0 <= injected <= total, every percentage reported is in 0..100, and
\* the counts of the proxy versions sum to at most the injected pods.
C25_CoverageWithinBounds ==
    NetworkingReturned =>
        LET text == Get(output).result.value
            scan == Get(output).scan
            at == HeaderAt(text, {"Sidecar Injection Coverage:"})
            total_pods == DictSum(scan.ns_total)
            total_injected == DictSum(scan.ns_injected)
            spaces == DictKeys(scan.ns_total) \cup DictKeys(scan.ns_injected)
            ratio(a, b) == ToString(a) \o "/" \o ToString(b)
        IN  /\ total_pods = Len(MeshPods)
            /\ 0 <= total_injected /\ total_injected <= total_pods
            /\ DictKeys(scan.ns_injected) \subseteq DictKeys(scan.ns_total)
            /\ \A ns \in spaces :
                   /\ DictGet(scan.ns_total, ns, 0) > 0
                   /\ 0 <= DictGet(scan.ns_injected, ns, 0)
                   /\ DictGet(scan.ns_injected, ns, 0) <= DictGet(scan.ns_total, ns, 0)
            /\ DictSum(scan.proxy_versions) <= total_injected
            /\ at # 0
            /\ total_injected # 0 =>
                   /\ total_pods > 0
                   /\ \E p \in 0..100 :
                          text[at + 2] = "  Total: " \o ratio(total_injected, total_pods)
                                         \o " pods have sidecar (" \o ToString(p) \o "%)"
                   /\ \A k \in 1..Cardinality(spaces) :
                          \E ns \in spaces, p \in 0..100, mark \in {OK_MARK, "~", BAD_MARK} :
                              text[at + 3 + k]
                                  = "  " \o mark \o " " \o ns \o ": "
                                    \o ratio(DictGet(scan.ns_injected, ns, 0),
                                             DictGet(scan.ns_total, ns, 0))
                                    \o " (" \o ToString(p) \o "%)"

\* A pod without containers, a pod with two istio-proxy containers and a pod
\* whose istio-proxy image has no tag: two injected pods of three, and one
\* proxy version counted.
C25_Witness ==
    /\ NetworkingReturned
    /\ Len(MeshPods) = 3
    /\ \E i \in 1..3 : IsNone(MeshPods[i].containers)
    /\ InjectedIn(1..3) = 2
    /\ DictSum(Get(output).scan.ns_injected) = 2
    /\ DictSum(Get(output).scan.proxy_versions) = 1
    /\ \A i \in 1..3 : MeshPods[i].namespace = "default"
    /\ "  ~ default: 2/3 (66%)" \in Range(Get(output).result.value)

\* What the lookup of the i-th CRD kind answered.
CrdAnswer(i) == input.api[CrdCall(input.namespace, IstioCrds[i].plural)]

CrdErrored(i) == ~IsNone(CrdAnswer(i).exc)

NotInstalledLine == "  " \o WARN_MARK \o " No Istio CRDs found - Istio is not installed"

\* The lines of the Istio configuration section are as the lookups in
\* errored say: "CRD not installed" for these, and for each other kind the
\* line of its own items; the "Istio is not installed" line comes iff the
\* five kinds are in errored.
CrdLinesFor(text, errored) ==
    LET at == HeaderAt(text, {"Istio Configuration:"})
    IN  /\ at # 0
        /\ \A i \in 1..5 :
               text[at + 1 + i]
                   = (IF i \in errored
                      THEN "  - " \o IstioCrds[i].label \o ": CRD not installed"
                      ELSE IF CrdAnswer(i).data = <<>>
                      THEN "  " \o IstioCrds[i].label \o ": 0"
                      ELSE "  " \o IstioCrds[i].label \o " ("
                           \o ToString(Len(CrdAnswer(i).data)) \o "): <cluster>: 1, ns1: 2")
        /\ IF errored = 1..5
           THEN text[at + 7] = NotInstalledLine /\ text[at + 8] = ""
           ELSE text[at + 7] = "" /\ NotInstalledLine \notin Range(text)

\* C18 as stated: each of the five Istio CRD kinds is looked up
\* independently: the line of a kind reads "CRD not installed" exactly when
\* its own lookup errored, an error in the lookup of one kind neither aborts
\* the report nor changes the line of another kind, and the "Istio is not
\* installed" line appears iff the five lookups errored.
C18_EveryLookupErrorStaysLocal ==
    NetworkingDone =>
        /\ Get(output).result.kind = "return"
        /\ CrdLinesFor(Get(output).result.value, {i \in 1..5 : CrdErrored(i)})

\* C18, amended: the same for the lookups that raise ApiException, of any
\* status; a lookup that raises another exception ends check_networking
\* with this exception, and there is no report.
C18_ApiErrorsStayLocal ==
    NetworkingDone =>
        LET fatal == {i \in 1..5 : CrdErrored(i)
                                     /\ Get(CrdAnswer(i).exc).type # "ApiException"}
        IN  IF fatal = {}
            THEN /\ Get(output).result.kind = "return"
                 /\ CrdLinesFor(Get(output).result.value, {i \in 1..5 : CrdErrored(i)})
            ELSE Get(output).result
                     = Raise(Get(CrdAnswer(CHOOSE i \in fatal : \A j \in fatal : i <= j).exc))

\* The lookups of two kinds raise ApiException (404 and 500), the third
\* answers items, the others none: the report has the five lines.
C18_Witness ==
    /\ NetworkingReturned
    /\ CrdAnswer(1).exc = Some(ApiException(404))
    /\ CrdAnswer(2).exc = Some(ApiException(500))
    /\ ~CrdErrored(3) /\ Len(CrdAnswer(3).data) = 3
    /\ ~CrdErrored(4) /\ ~CrdErrored(5)
    /\ "  - VirtualServices: CRD not installed" \in Range(Get(output).result.value)
    /\ "  - DestinationRules: CRD not installed" \in Range(Get(output).result.value)
    /\ "  Gateways (3): <cluster>: 1, ns1: 2" \in Range(Get(output).result.value)
    /\ NotInstalledLine \notin Range(Get(output).result.value)

-----------------------------------------------------------------------------
(* Claims about the server (under Spec) *)

Done(s) == inv[s].pc = "done"

\* What the _fetch of a finished invocation ended with; none if it had none.
FetchOf(s) == inv[s].fetched

\* The exceptions raised by the cluster calls of the invocation of s.
FetchErrors(s) == IF IsNone(FetchOf(s)) THEN {} ELSE Get(FetchOf(s)).errors

ErrorText(e) == TextContent(<<"Error: " \o e.msg>>)

\* The exception that left the builder's _fetch, if one did.
FetchRaised(s) ==
    IF ~IsNone(FetchOf(s)) /\ Get(FetchOf(s)).out.kind = "raise"
    THEN Some(Get(FetchOf(s)).out.exc) ELSE None

\* The nodes a finished check_node_health or diagnose_cluster was given.
NodesOf(s) ==
    LET v == Get(FetchOf(s)).out.value
    IN  IF inv[s].name = "diagnose_cluster" THEN v.nodes ELSE v

\* C1: no invocation raises out of call_tool; an exception raised
\* by init_kubernetes, by reading the arguments, or by a builder that does
\* not handle it gives the text "Error: {message}"; an ApiException in
\* get_resource_usage gives that builder's own text ("Metrics Server not
\* available" for 404, "Error getting metrics: ..." otherwise); an
\* ApiException of the istio-system or a CRD lookup of check_networking is
\* absorbed and the report is built.
C1_ExceptionsEndAsText ==
    \A s \in Sessions : Done(s) =>
        LET r == Get(inv[s].result)
            raised == FetchRaised(s)
        IN  /\ r.kind = "text"
            /\ inv[s].init_raised => r = ErrorText(ConfigException)
            /\ (~inv[s].init_raised /\ ~inv[s].arguments.isdict) => r = ErrorText(AttributeError)
            /\ ~IsNone(raised) =>
                   IF inv[s].name = "get_resource_usage" /\ Get(raised).type = "ApiException"
                   THEN IF Get(raised).status = 404
                        THEN r.text[Len(r.text)] = "Metrics Server not available"
                        ELSE r = TextContent(<<"Error getting metrics: " \o Get(raised).msg>>)
                   ELSE r = ErrorText(Get(raised))
            /\ (IsNone(raised) /\ FetchErrors(s) # {}) =>
                   /\ inv[s].name = "check_networking"
                   /\ \A e \in FetchErrors(s) : e.exc.type = "ApiException"
                   /\ r.text[1] \in {"Networking & Istio Diagnostics (All Namespaces):",
                                     "Networking & Istio Diagnostics (Namespace: ns1):"}
            /\ (~IsNone(FetchOf(s)) /\ FetchErrors(s) = {}
                /\ inv[s].name \in {"check_node_health", "diagnose_cluster"}
                /\ \E i \in 1..Len(NodesOf(s)) : IsNone(NodesOf(s)[i].conditions))
                   => r = ErrorText(TypeError)

\* An invocation whose list call raised and was answered "Error: ...", next
\* to one whose formatting raised.
C1_Witness ==
    \E s, t \in Sessions :
        /\ Done(s) /\ Done(t)
        /\ inv[s].name = "check_pod_health"
        /\ FetchRaised(s) = Some(MaxRetryError)
        /\ Get(inv[s].result) = ErrorText(MaxRetryError)
        /\ inv[t].name = "check_node_health"
        /\ IsNone(FetchRaised(t)) /\ ~IsNone(FetchOf(t))
        /\ Get(inv[t].result) = ErrorText(TypeError)

\* C1 (general form): every exception raised during initialization or fetching
\* ends as the text "Error: {message}".
C1_EveryExceptionEndsAsErrorText ==
    \A s \in Sessions : Done(s) =>
        /\ Get(inv[s].result).kind = "text"
        /\ inv[s].init_raised => Get(inv[s].result) = ErrorText(ConfigException)
        /\ FetchErrors(s) # {} =>
               \E e \in FetchErrors(s) : Get(inv[s].result) = ErrorText(e.exc)

\* C2: a name that call_tool does not dispatch is answered with
\* "Unknown tool: {name}", whatever the state of the process.
C2_UnknownToolAlwaysAnswered ==
    \A s \in Sessions :
        (Done(s) /\ inv[s].name \notin Dispatched(transport)) =>
            Get(inv[s].result) = TextContent(<<"Unknown tool: " \o inv[s].name>>)

\* C3: the config load succeeds at most once: the flag is set exactly when
\* one load has succeeded, and no load happens while it is set.
C3_ConfigLoadedAtMostOnce ==
    /\ config_loads <= 1
    /\ k8s_initialized <=> config_loads = 1

\* Two invocations past init_kubernetes at the same time, one load.
C3_Witness ==
    /\ config_loads = 1
    /\ \A s \in Sessions : inv[s].pc = "fetching"

\* C4: cluster calls run on worker threads only, and while an invocation
\* waits for its _fetch the event loop is free for the other sessions.
C4_ApiCallsOffTheLoop ==
    /\ api_threads \subseteq {"worker"}
    /\ \A s \in Sessions : inv[s].pc = "fetching" => loop = "free"

\* An invocation that started and finished while another was waiting for
\* its cluster calls.
C4_Witness ==
    \E s, t \in Sessions :
        /\ inv[t].pc = "fetching"
        /\ Done(s)
        /\ ~IsNone(FetchOf(s))
        /\ t \in inv[s].during
        /\ api_threads = {"worker"}

\* C5: when a cluster call fails with an ApiException other than 404, the
\* result is an error text.
C5_ApiFailureEndsAsErrorText ==
    \A s \in Sessions : Done(s) =>
        \A e \in FetchErrors(s) :
            (e.exc.type = "ApiException" /\ e.exc.status # 404) =>
                Get(inv[s].result) \in {ErrorText(e.exc),
                                        TextContent(<<"Error getting metrics: " \o e.exc.msg>>)}

\* C6: when the node-metrics or the pod-metrics lookup answers 404,
\* get_resource_usage returns the "Metrics Server not available" message and
\* nothing else, with or without a namespace.
C6_MetricsNotFoundSentinel ==
    \A s \in Sessions :
        (/\ Done(s)
         /\ inv[s].name = "get_resource_usage"
         /\ \E e \in FetchErrors(s) : e.exc.type = "ApiException" /\ e.exc.status = 404)
        => Get(inv[s].result) =
               TextContent(<<"Resource Usage:", RULE_DOUBLE, "",
                             "Metrics Server not available">>)

\* The pod-metrics lookup of a namespace answered 404.
C6_Witness ==
    \E s \in Sessions :
        /\ Done(s)
        /\ inv[s].name = "get_resource_usage"
        /\ inv[s].arguments.namespace = "ns1"
        /\ FetchErrors(s) = {[call |-> "list_namespaced_custom_object:pods",
                              exc |-> ApiException(404)]}
        /\ Get(inv[s].result).text[4] = "Metrics Server not available"

OwnResult(rec) ==
    Some(call_tool_except(AfterFetch(transport, rec.name, rec.arguments.namespace,
                                     Get(rec.fetched).out)))

\* C19: an invocation, successful or failed, changes no process-wide state
\* but the client-initialization flag: the tool list is the same before and
\* after, the flag is never reset, nothing of an invocation is left once it
\* has been answered, a step of one invocation changes neither what another
\* one has fetched nor its result, and the result of an invocation is that of
\* its own name, arguments and fetched data.
C19_OnlyInitFlagChanges ==
    [][/\ transport' = transport
       /\ list_tools(transport') = list_tools(transport)
       /\ k8s_initialized => k8s_initialized'
       /\ \A s \in Sessions :
              /\ (inv[s].pc = "done" /\ inv'[s].pc = "idle") => inv'[s] = Idle
              /\ inv'[s].pc = inv[s].pc =>
                     /\ inv'[s].fetched = inv[s].fetched
                     /\ inv'[s].result = inv[s].result
                     /\ inv'[s].name = inv[s].name
                     /\ inv'[s].arguments = inv[s].arguments
              /\ (inv[s].pc = "fetched" /\ inv'[s].pc = "done")
                     => inv'[s].result = OwnResult(inv[s])
              /\ inv[s].pc = "idle" => IsNone(inv[s].fetched) /\ IsNone(inv[s].result)]_vars

\* Two invocations of diagnose_cluster at the same time whose fetches were
\* answered differently: each has the result of its own data.
C19_Witness ==
    \E s, t \in Sessions :
        /\ s # t
        /\ k8s_initialized
        /\ Done(s) /\ Done(t)
        /\ inv[s].name = "diagnose_cluster" /\ inv[t].name = "diagnose_cluster"
        /\ ~IsNone(FetchOf(s)) /\ ~IsNone(FetchOf(t))
        /\ Get(FetchOf(s)).out.kind = "return" /\ Get(FetchOf(t)).out.kind = "return"
        /\ Get(FetchOf(s)).out # Get(FetchOf(t)).out
        /\ inv[s].result = OwnResult(inv[s])
        /\ inv[t].result = OwnResult(inv[t])
        /\ inv[s].result # inv[t].result

\* C22: when the config load fails during an invocation the flag stays
\* unset, the invocation ends with an "Error: ..." text without a builder or
\* a cluster call, and the next invocation tries the load again; the flag is
\* set only by a load that succeeded.
C22_FailedLoadIsRetried ==
    [][\A s \in Sessions :
          /\ (inv[s].pc = "idle" /\ inv'[s].pc # "idle" /\ ~k8s_initialized) =>
                 \/ /\ inv'[s].init_raised
                    /\ ~k8s_initialized'
                    /\ config_loads' = config_loads
                    /\ inv'[s].pc = "done"
                    /\ IsNone(inv'[s].fetched)
                    /\ inv'[s].result = Some(ErrorText(ConfigException))
                    /\ api_threads' = api_threads
                 \/ /\ ~inv'[s].init_raised
                    /\ k8s_initialized'
                    /\ config_loads' = config_loads + 1
          /\ (inv[s].pc = "idle" /\ inv'[s].pc # "idle" /\ k8s_initialized) =>
                 ~inv'[s].init_raised /\ config_loads' = config_loads
          /\ (k8s_initialized' /\ ~k8s_initialized) => config_loads' = config_loads + 1
          /\ inv[s].init_raised => IsNone(inv[s].fetched) /\ inv[s].pc = "done"]_vars

\* The load failed in the invocation of one session, which has its error
\* text, and succeeded when the other session called afterwards.
C22_Witness ==
    \E s, t \in Sessions :
        /\ inv[s].init_raised
        /\ inv[s].result = Some(ErrorText(ConfigException))
        /\ inv[s].name \in Dispatched(transport)
        /\ k8s_initialized
        /\ config_loads = 1
        /\ inv[t].pc = "fetched"

UnknownToolText(name) == TextContent(<<"Unknown tool: " \o name>>)

\* C23: in each variant the names list_tools returns are the names call_tool
\* routes to a builder: a listed tool is never answered with "Unknown
\* tool", a name that is not listed is never given to a builder, and there
\* are six tools in the local variant and seven, with check_networking, in
\* the HTTP variant.
C23_ListedIffDispatched ==
    LET listed == Range(list_tools(transport))
    IN  /\ Cardinality(listed) = Len(list_tools(transport))
        /\ Cardinality(listed) = (IF transport = "local" THEN 6 ELSE 7)
        /\ "check_networking" \in listed <=> transport = "http"
        /\ \A s \in Sessions :
               /\ (inv[s].pc # "idle" /\ inv[s].name \in listed)
                      => /\ inv[s].result # Some(UnknownToolText(inv[s].name))
                         /\ inv[s].pc = "done" =>
                                (inv[s].init_raised \/ ~IsNone(inv[s].fetched)
                                 \/ inv[s].result = Some(ErrorText(AttributeError)))
               /\ (inv[s].pc # "idle" /\ inv[s].name \notin listed)
                      => /\ inv[s].pc = "done"
                         /\ IsNone(inv[s].fetched)
                         /\ ~inv[s].init_raised
                                => inv[s].result = Some(UnknownToolText(inv[s].name))

\* check_networking is asked of both variants at some time: the HTTP variant
\* has run its builder, the local variant answers "Unknown tool".
C23_Witness ==
    \E s \in Sessions :
        /\ Done(s)
        /\ inv[s].name = "check_networking"
        /\ \/ /\ transport = "http"
              /\ ~IsNone(inv[s].fetched)
              /\ Get(inv[s].fetched).out.kind = "return"
           \/ /\ transport = "local"
              /\ inv[s].result = Some(UnknownToolText("check_networking"))

=============================================================================
